---------------------------- MODULE Spec2Model ----------------------------
(***************************************************************************)
(* A model of mcp-gemini's request lifecycle and resilience layer:         *)
(*   - retry.ts: withRetry (exponential backoff) and withTimeout (race of  *)
(*     an operation against a timer);                                      *)
(*   - the text, image and deep-research providers and the CallTool        *)
(*     dispatcher that drives them.                                        *)
(* Strings are sequences of one-character strings, so that the code's      *)
(* substring tests (String.includes, startsWith, toLowerCase) and its      *)
(* template strings are computed, not assumed.                             *)
(***************************************************************************)
EXTENDS Integers, Sequences, FiniteSets, TLC

VARIABLES
    req,          \* the call under way: the tool (or harness function) and its arguments
    pc,           \* control position of the invocation
    now,          \* the clock, in ms
    opts,         \* withRetry: DEFAULT_OPTIONS overridden by the caller's options
    attempt,      \* withRetry: the loop counter
    delay,        \* withRetry: the next backoff delay
    lastError,    \* withRetry: the last failure caught
    wakeAt,       \* the pending sleep's wake-up time
    calls,        \* history: how many times fn was invoked
    fnLog,        \* history: how each fn invocation settled, in order
    sleeps,       \* history: the delays slept, in order
    retryResult,  \* how withRetry settled: pending, returned or thrown
    races,        \* one record per withTimeout call: the operation, the timer, the race
    vendorCalls,  \* history: every network request sent to the vendor, in order
    outcome,      \* how the invocation ended: what its caller receives
    provResult,   \* how the provider's generate/research settled: pending, returned, thrown
    fsReads,      \* history: the attachment paths read from disk, in order
    fsWrites,     \* history: the files written to disk, in order
    contents,     \* the content sequence assembled for the vendor call
    usageLog,     \* history: the usage records written by logger.logUsage
    research,     \* the research call's locals: interaction id, start time, budget, polls
    parked        \* the other invocations of the process, each suspended at an await

retryVars == <<opts, attempt, delay, lastError, wakeAt, calls, fnLog, sleeps, retryResult>>
orchVars == <<provResult, fsReads, fsWrites, contents, usageLog, research>>
vars == <<req, pc, now, retryVars, races, vendorCalls, outcome, orchVars, parked>>

-----------------------------------------------------------------------------
(* Strings *)

UpperAlpha == <<"A", "B", "C", "D", "E", "F", "G", "H", "I", "J", "K", "L", "M", "N", "O",
    "P", "Q", "R", "S", "T", "U", "V", "W", "X", "Y", "Z">>
LowerAlpha == <<"a", "b", "c", "d", "e", "f", "g", "h", "i", "j", "k", "l", "m", "n", "o",
    "p", "q", "r", "s", "t", "u", "v", "w", "x", "y", "z">>
DigitChars == <<"0", "1", "2", "3", "4", "5", "6", "7", "8", "9">>

\* String.prototype.toLowerCase, one character
LowerChar(c) ==
    IF \E i \in 1..26 : UpperAlpha[i] = c
    THEN LowerAlpha[CHOOSE i \in 1..26 : UpperAlpha[i] = c]
    ELSE c

\* String.prototype.toLowerCase
toLowerCase(s) == [i \in 1..Len(s) |-> LowerChar(s[i])]

\* String.prototype.includes
includes(s, p) ==
    \E i \in 0..(Len(s) - Len(p)) : SubSeq(s, i + 1, i + Len(p)) = p

\* String.prototype.startsWith
startsWith(s, p) == Len(p) <= Len(s) /\ SubSeq(s, 1, Len(p)) = p

\* Number to string, as a template literal formats a non-negative integer
RECURSIVE NumberToString(_)
NumberToString(n) ==
    IF n < 10 THEN <<DigitChars[n + 1]>>
    ELSE NumberToString(n \div 10) \o <<DigitChars[(n % 10) + 1]>>

Min(a, b) == IF a <= b THEN a ELSE b

-----------------------------------------------------------------------------
(* retry.ts *)

P_RATE_LIMIT == <<"R", "A", "T", "E", "_", "L", "I", "M", "I", "T">>
P_ECONNRESET == <<"E", "C", "O", "N", "N", "R", "E", "S", "E", "T">>
P_ETIMEDOUT == <<"E", "T", "I", "M", "E", "D", "O", "U", "T">>
P_ENOTFOUND == <<"E", "N", "O", "T", "F", "O", "U", "N", "D">>
P_429 == <<"4", "2", "9">>
P_503 == <<"5", "0", "3">>
P_502 == <<"5", "0", "2">>

DEFAULT_OPTIONS ==
    [maxRetries |-> 3,
     initialDelayMs |-> 1000,
     maxDelayMs |-> 30000,
     backoffMultiplier |-> 2,
     retryableErrors |->
        <<P_RATE_LIMIT, P_ECONNRESET, P_ETIMEDOUT, P_ENOTFOUND, P_429, P_503, P_502>>]

\* { ...DEFAULT_OPTIONS, ...options }: the caller's keys override the defaults
MergeOptions(options) ==
    [k \in DOMAIN DEFAULT_OPTIONS |->
        IF k \in DOMAIN options THEN options[k] ELSE DEFAULT_OPTIONS[k]]

\* Failures are values with a message and the identity of the object thrown
NoError == [message |-> <<>>, origin |-> <<"none", 0>>]

\* An optional number
NoNumber == [present |-> FALSE, value |-> 0]
Num(n) == [present |-> TRUE, value |-> n]

\* The usage metadata of a vendor response: absent, or an object of optional counters
NoUsageMetadata == [present |-> FALSE]
UsageMetadata(prompt, candidatesCount, total, thoughts) ==
    [present |-> TRUE, promptTokenCount |-> prompt, candidatesTokenCount |-> candidatesCount,
     totalTokenCount |-> total, thoughtsTokenCount |-> thoughts]

\* A vendor response: its direct text, its candidates, each a sequence of parts, and
\* its usage metadata
Response(text, candidates) ==
    [text |-> text, candidates |-> candidates, usageMetadata |-> NoUsageMetadata]
WithUsage(response, usageMetadata) == [response EXCEPT !.usageMetadata = usageMetadata]

\* The value of a promise whose value is not looked at: a response holding nothing
NoValue == Response(<<"undefined">>, <<>>)

Pending == [kind |-> "pending", error |-> NoError, value |-> NoValue]
Returned(value) == [kind |-> "returned", error |-> NoError, value |-> value]
Thrown(error) == [kind |-> "thrown", error |-> error, value |-> NoValue]
Failure(message, origin) == [message |-> message, origin |-> origin]

\* The usage object of a result, and the result of a text or image orchestrator
NoUsage == [present |-> FALSE]
GenerationResult(value, usage) ==
    [kind |-> "returned", error |-> NoError, value |-> value, usage |-> usage]

\* A variant that tests the pattern for the message instead of the message for the pattern
isRetryableError_Swapped(error, retryablePatterns) ==
    \E i \in 1..Len(retryablePatterns) :
        \/ includes(retryablePatterns[i], error.message)
        \/ includes(toLowerCase(retryablePatterns[i]), toLowerCase(error.message))

isRetryableError(error, retryablePatterns) ==
    \E i \in 1..Len(retryablePatterns) :
        \/ includes(error.message, retryablePatterns[i])
        \/ includes(toLowerCase(error.message), toLowerCase(retryablePatterns[i]))

\* A variant that stops one attempt early
hasRetriesLeft_Strict(a, o) == a < o.maxRetries

\* const hasRetriesLeft = attempt <= opts.maxRetries
hasRetriesLeft(a, o) == a <= o.maxRetries

\* A variant that keeps the delay as it is
NextDelay_Constant(d, o) == Min(d, o.maxDelayMs)

\* delay = Math.min(delay * opts.backoffMultiplier, opts.maxDelayMs)
NextDelay(d, o) == Min(d * o.backoffMultiplier, o.maxDelayMs)

\* A variant whose patterns include the words of withTimeout's message
PROVIDER_RETRY_OPTIONS_TimedOut ==
    [maxRetries |-> 2,
     retryableErrors |-> <<P_RATE_LIMIT, P_429, P_503, P_502, P_ECONNRESET, P_ETIMEDOUT,
                           <<"t", "i", "m", "e", "d", " ", "o", "u", "t">>>>]

\* The options the text and image providers pass to withRetry
PROVIDER_RETRY_OPTIONS ==
    [maxRetries |-> 2,
     retryableErrors |-> <<P_RATE_LIMIT, P_429, P_503, P_502, P_ECONNRESET, P_ETIMEDOUT>>]

\* The options of the withRetry call under way
OptionsPassed == IF req.tool = "withRetry" THEN req.options ELSE PROVIDER_RETRY_OPTIONS

\* withRetry, entry: merge the options, lastError = null, delay = initialDelayMs, attempt = 1
withRetryEnter ==
    /\ pc = "retry_enter"
    /\ opts' = MergeOptions(OptionsPassed)
    /\ attempt' = 1
    /\ delay' = MergeOptions(OptionsPassed).initialDelayMs
    /\ lastError' = NoError
    /\ pc' = "retry_loop"
    /\ UNCHANGED <<parked, req, now, wakeAt, calls, fnLog, sleeps, retryResult>>
    /\ UNCHANGED <<races, vendorCalls, outcome, orchVars>>

\* withRetry, the catch block, run when fn's promise rejects with `error`
RetryCatch(error) ==
    /\ lastError' = error
    /\ IF ~isRetryableError(error, opts.retryableErrors) \/ ~hasRetriesLeft(attempt, opts)
       THEN /\ retryResult' = Thrown(error)
            /\ pc' = "retry_done"
            /\ UNCHANGED <<wakeAt, sleeps>>
       ELSE /\ pc' = "retry_sleep"
            /\ wakeAt' = now + delay
            /\ sleeps' = Append(sleeps, delay)
            /\ UNCHANGED retryResult
    /\ UNCHANGED <<opts, attempt, delay>>

\* A variant that sleeps once more before it returns
RetryReturn_SleepsFirst(value) ==
    /\ retryResult' = Returned(value)
    /\ pc' = "retry_done"
    /\ sleeps' = Append(sleeps, delay)
    /\ UNCHANGED <<opts, attempt, delay, lastError, wakeAt>>

\* withRetry, `return await fn()` when fn's promise resolves
RetryReturn(value) ==
    /\ retryResult' = Returned(value)
    /\ pc' = "retry_done"
    /\ UNCHANGED <<opts, attempt, delay, lastError, wakeAt, sleeps>>

\* withRetry, end of the catch block: the sleep is over, the delay grows, attempt++
RetryWake ==
    /\ pc = "retry_sleep"
    /\ now >= wakeAt
    /\ delay' = NextDelay(delay, opts)
    /\ attempt' = attempt + 1
    /\ pc' = "retry_loop"
    /\ UNCHANGED <<parked, req, now, opts, lastError, wakeAt, calls, fnLog, sleeps, retryResult>>
    /\ UNCHANGED <<races, vendorCalls, outcome, orchVars>>

S_RetryFailedUnknown == <<"R", "e", "t", "r", "y", " ", "f", "a", "i", "l", "e", "d", " ",
    "w", "i", "t", "h", " ", "u", "n", "k", "n", "o", "w", "n", " ", "e", "r", "r", "o", "r">>

\* withRetry, the loop head when fn is a plain operation: call fn and await it, or
\* leave the loop and throw lastError (or the fallback failure)
RetryInvokeOperation ==
    /\ pc = "retry_loop"
    /\ req.tool = "withRetry"
    /\ IF attempt <= opts.maxRetries + 1
       THEN /\ calls' = calls + 1
            /\ pc' = "retry_await"
            /\ UNCHANGED retryResult
       ELSE /\ retryResult' =
                Thrown(IF lastError = NoError
                       THEN Failure(S_RetryFailedUnknown, <<"withRetry", 0>>)
                       ELSE lastError)
            /\ pc' = "retry_done"
            /\ UNCHANGED calls
    /\ UNCHANGED <<parked, req, now, opts, attempt, delay, lastError, wakeAt, fnLog, sleeps>>
    /\ UNCHANGED <<races, vendorCalls, outcome, orchVars>>

\* The value the plain operation resolves with at its k-th invocation
ValueOfCall(k) == Response(<<"v">> \o NumberToString(k), <<>>)

\* The plain operation's promise resolves: withRetry returns its value
OperationResolves ==
    /\ pc = "retry_await"
    /\ req.tool = "withRetry"
    /\ fnLog' = Append(fnLog, [kind |-> "resolved", error |-> NoError])
    /\ RetryReturn(ValueOfCall(calls))
    /\ UNCHANGED <<parked, req, now, calls, races, vendorCalls, outcome, orchVars>>

\* The plain operation's promise rejects with a failure carrying message m
OperationRejects(m) ==
    /\ pc = "retry_await"
    /\ req.tool = "withRetry"
    /\ LET error == Failure(m, <<"fn", calls>>)
       IN /\ fnLog' = Append(fnLog, [kind |-> "rejected", error |-> error])
          /\ RetryCatch(error)
    /\ UNCHANGED <<parked, req, now, calls, races, vendorCalls, outcome, orchVars>>

\* The caller of withRetry receives its value or its failure
HarnessSettles ==
    /\ pc = "retry_done"
    /\ req.tool = "withRetry"
    /\ outcome' = retryResult
    /\ pc' = "done"
    /\ UNCHANGED <<parked, req, now, retryVars, races, vendorCalls, orchVars>>

-----------------------------------------------------------------------------
(* retry.ts: withTimeout *)

S_TIMEOUT == <<"T", "I", "M", "E", "O", "U", "T">>
S_TimeoutPrefix == <<"T", "I", "M", "E", "O", "U", "T", ":", " ", "O", "p", "e", "r", "a",
    "t", "i", "o", "n", " ", "t", "i", "m", "e", "d", " ", "o", "u", "t", " ", "a", "f", "t",
    "e", "r", " ">>
S_ms == <<"m", "s">>

\* A variant whose message leaves the duration out
TimeoutMessage_NoDuration(timeoutMs) ==
    SubSeq(S_TimeoutPrefix, 1, Len(S_TimeoutPrefix) - 7)

\* `TIMEOUT: Operation timed out after ${timeoutMs}ms`
TimeoutMessage(timeoutMs) == S_TimeoutPrefix \o NumberToString(timeoutMs) \o S_ms

\* Promise.race([fn(), new Promise((_, reject) => setTimeout(..., timeoutMs))]) at time t:
\* the operation is started, the timer is armed, the race is pending
NewRace(t, timeoutMs) ==
    [start |-> t, timeoutMs |-> timeoutMs, deadline |-> t + timeoutMs,
     op |-> "pending", opError |-> NoError,
     timer |-> "armed",
     result |-> "pending", error |-> NoError, value |-> NoValue]

\* A variant in which a later settlement replaces the race's result
SettleRace_LastWins(r, kind, error, value) ==
    [r EXCEPT !.result = kind, !.error = error, !.value = value]

\* Promise.race: the first of its promises to settle settles it, for good
SettleRace(r, kind, error, value) ==
    IF r.result = "pending"
    THEN [r EXCEPT !.result = kind, !.error = error, !.value = value]
    ELSE r

\* withTimeout called on its own: the caller awaits the race
withTimeoutEnter ==
    /\ pc = "timeout_enter"
    /\ races' = Append(races, NewRace(now, req.timeoutMs))
    /\ pc' = "timeout_await"
    /\ UNCHANGED <<parked, req, now, retryVars, vendorCalls, outcome, orchVars>>

\* The code awaiting race i resumes: withTimeout's caller, or withRetry's loop
Resume(kind, error, value) ==
    IF req.tool = "withTimeout"
    THEN /\ outcome' = IF kind = "resolved" THEN Returned(value) ELSE Thrown(error)
         /\ pc' = "done"
         /\ UNCHANGED retryVars
    ELSE /\ fnLog' = Append(fnLog, [kind |-> kind, error |-> error])
         /\ IF kind = "resolved" THEN RetryReturn(value) ELSE RetryCatch(error)
         /\ UNCHANGED <<calls, outcome>>

\* The operation of race i resolves with value v, at any time after its start, also
\* after the timer
WrappedResolves(i, v) ==
    /\ i \in 1..Len(races)
    /\ races[i].op = "pending"
    /\ races' = [races EXCEPT ![i] =
                    SettleRace([races[i] EXCEPT !.op = "resolved"], "resolved", NoError, v)]
    /\ IF races[i].result = "pending"
       THEN Resume("resolved", NoError, v)
       ELSE UNCHANGED <<pc, retryVars, outcome>>
    /\ UNCHANGED <<parked, req, now, vendorCalls, orchVars>>

\* The operation of race i rejects with a failure carrying message m
WrappedRejects(i, m) ==
    /\ i \in 1..Len(races)
    /\ races[i].op = "pending"
    /\ LET error == Failure(m, <<"fn", i>>)
       IN /\ races' = [races EXCEPT ![i] =
                SettleRace([races[i] EXCEPT !.op = "rejected", !.opError = error],
                           "rejected", error, NoValue)]
          /\ IF races[i].result = "pending"
             THEN Resume("rejected", error, NoValue)
             ELSE UNCHANGED <<pc, retryVars, outcome>>
    /\ UNCHANGED <<parked, req, now, vendorCalls, orchVars>>

\* The timer of race i fires: it is never cleared, so it fires whether or not the
\* operation has settled
TimerFires(i) ==
    /\ i \in 1..Len(races)
    /\ races[i].timer = "armed"
    /\ now >= races[i].deadline
    /\ LET error == Failure(TimeoutMessage(races[i].timeoutMs), <<"timer", i>>)
       IN /\ races' = [races EXCEPT ![i] =
                SettleRace([races[i] EXCEPT !.timer = "fired"], "rejected", error, NoValue)]
          /\ IF races[i].result = "pending"
             THEN Resume("rejected", error, NoValue)
             ELSE UNCHANGED <<pc, retryVars, outcome>>
    /\ UNCHANGED <<parked, req, now, vendorCalls, orchVars>>

-----------------------------------------------------------------------------
(* Time *)

\* The times at which the pending timers and the sleep of one invocation are due
TimersOf(invRaces, invPc, invWakeAt, invResearch) ==
    {invRaces[i].deadline : i \in {j \in 1..Len(invRaces) : invRaces[j].timer = "armed"}}
        \cup (IF invPc = "retry_sleep" THEN {invWakeAt} ELSE {})
        \cup (IF invPc = "research_sleep" THEN {invResearch.wakeAt} ELSE {})

\* The times at which a pending timer or sleep of the process is due
Deadlines ==
    TimersOf(races, pc, wakeAt, research)
        \cup UNION {TimersOf(parked[k].races, parked[k].pc, parked[k].wakeAt,
                             parked[k].research) : k \in 1..Len(parked)}

MinOf(S) == CHOOSE x \in S : \A y \in S : x <= y

\* How long an operation in flight may take before the model looks again
Latencies == {120000}

OperationInFlight ==
    \/ pc = "retry_await"
    \/ \E i \in 1..Len(races) : races[i].op = "pending"

\* How long a fetch of the research provider, which no timer guards, may take
FetchLatencies == {600000}

FetchInFlight == pc \in {"research_start_await", "research_poll_await"}

\* The clock advances to the next due timer or sleep, or by a latency short of it, or
\* by the latency of a fetch sent within the research budget
Tick ==
    /\ \/ /\ Deadlines # {}
          /\ now < MinOf(Deadlines)
          /\ now' = MinOf(Deadlines)
       \/ /\ OperationInFlight
          /\ Deadlines # {}
          /\ \E l \in Latencies : now + l < MinOf(Deadlines) /\ now' = now + l
       \/ /\ FetchInFlight
          /\ now = research.sentAt
          /\ now <= research.startTime + research.timeoutMs
          /\ \E l \in FetchLatencies :
                /\ \A d \in Deadlines : now + l <= d
                /\ now' = now + l
    /\ UNCHANGED <<parked, req, pc, retryVars, races, vendorCalls, outcome, orchVars>>

-----------------------------------------------------------------------------
(* JavaScript values *)

\* undefined: a value no string equals (strings hold one character per element)
Undefined == <<"undefined">>

\* An absent array argument
UndefinedList == <<Undefined>>

\* Truthiness of a string or undefined: "" and undefined are falsy
Truthy(s) == s # Undefined /\ s # <<>>

Whitespace == {" ", "\t", "\n", "\r"}

RECURSIVE trimStart(_)
trimStart(s) == IF s # <<>> /\ Head(s) \in Whitespace THEN trimStart(Tail(s)) ELSE s

RECURSIVE trimEnd(_)
trimEnd(s) ==
    IF s # <<>> /\ s[Len(s)] \in Whitespace THEN trimEnd(SubSeq(s, 1, Len(s) - 1)) ELSE s

\* String.prototype.trim
trim(s) == trimEnd(trimStart(s))

\* Array.prototype.includes
ArrayIncludes(arr, x) == \E i \in 1..Len(arr) : arr[i] = x

\* Array.prototype.join
RECURSIVE join(_, _)
join(arr, sep) ==
    IF arr = <<>> THEN <<>>
    ELSE IF Len(arr) = 1 THEN arr[1]
    ELSE arr[1] \o sep \o join(Tail(arr), sep)

\* The last index of character c in s, 0 when absent
LastIndexOf(s, c) ==
    IF \E i \in 1..Len(s) : s[i] = c
    THEN CHOOSE i \in 1..Len(s) : s[i] = c /\ \A j \in (i + 1)..Len(s) : s[j] # c
    ELSE 0

\* path.extname: from the last "." of the last path segment; "" when there is none or
\* the segment starts with it
extname(p) ==
    LET base == SubSeq(p, LastIndexOf(p, "/") + 1, Len(p))
        dot == LastIndexOf(base, ".")
    IN IF dot <= 1 THEN <<>> ELSE SubSeq(base, dot, Len(base))

-----------------------------------------------------------------------------
(* types.ts *)

M_gemini_3_pro == <<"g", "e", "m", "i", "n", "i", "-", "3", "-", "p", "r", "o">>
M_gemini_3_flash == <<"g", "e", "m", "i", "n", "i", "-", "3", "-", "f", "l", "a", "s", "h">>
ID_gemini_3_pro == <<"g", "e", "m", "i", "n", "i", "-", "3", "-", "p", "r", "o", "-", "p",
    "r", "e", "v", "i", "e", "w">>
ID_gemini_3_flash == <<"g", "e", "m", "i", "n", "i", "-", "3", "-", "f", "l", "a", "s", "h",
    "-", "p", "r", "e", "v", "i", "e", "w">>
L_minimal == <<"m", "i", "n", "i", "m", "a", "l">>
L_low == <<"l", "o", "w">>
L_medium == <<"m", "e", "d", "i", "u", "m">>
L_high == <<"h", "i", "g", "h">>

SUPPORTED_TEXT_MODELS == <<M_gemini_3_pro, M_gemini_3_flash>>

isSupportedTextModel(model) == ArrayIncludes(SUPPORTED_TEXT_MODELS, model)

DEFAULT_TEXT_MODEL == M_gemini_3_pro

TEXT_MODEL_IDS ==
    [m \in {M_gemini_3_pro, M_gemini_3_flash} |->
        IF m = M_gemini_3_pro THEN ID_gemini_3_pro ELSE ID_gemini_3_flash]

MODEL_THINKING_LEVELS ==
    [m \in {M_gemini_3_pro, M_gemini_3_flash} |->
        IF m = M_gemini_3_pro THEN <<L_low, L_high>>
        ELSE <<L_minimal, L_low, L_medium, L_high>>]

\* table[key], undefined for a key the table lacks
Lookup(table, key) == IF key \in DOMAIN table THEN table[key] ELSE Undefined

S_onlySupports == <<" ", "o", "n", "l", "y", " ", "s", "u", "p", "p", "o", "r", "t", "s",
    " ", "t", "h", "i", "n", "k", "i", "n", "g", " ", "l", "e", "v", "e", "l", "s", ":",
    " ">>
S_commaSpace == <<",", " ">>
S_Got == <<".", " ", "G", "o", "t", ":", " ">>

\* A variant that accepts a level any model supports
validateThinkingLevel_AnyModel(model, level) ==
    IF \A m \in DOMAIN MODEL_THINKING_LEVELS : ~ArrayIncludes(MODEL_THINKING_LEVELS[m], level)
    THEN model \o S_onlySupports \o join(MODEL_THINKING_LEVELS[model], S_commaSpace)
            \o S_Got \o level
    ELSE Undefined

\* Returns an error message if the model does not support the level, undefined if it does
validateThinkingLevel(model, level) ==
    LET supportedLevels == MODEL_THINKING_LEVELS[model]
    IN IF ~ArrayIncludes(supportedLevels, level)
       THEN model \o S_onlySupports \o join(supportedLevels, S_commaSpace) \o S_Got \o level
       ELSE Undefined

\* Extension and MIME type, in the order of the source's table
SUPPORTED_MIME_TYPES == <<
    <<<<".", "j", "p", "g">>,
      <<"i", "m", "a", "g", "e", "/", "j", "p", "e", "g">>>>,
    <<<<".", "j", "p", "e", "g">>,
      <<"i", "m", "a", "g", "e", "/", "j", "p", "e", "g">>>>,
    <<<<".", "p", "n", "g">>,
      <<"i", "m", "a", "g", "e", "/", "p", "n", "g">>>>,
    <<<<".", "w", "e", "b", "p">>,
      <<"i", "m", "a", "g", "e", "/", "w", "e", "b", "p">>>>,
    <<<<".", "h", "e", "i", "c">>,
      <<"i", "m", "a", "g", "e", "/", "h", "e", "i", "c">>>>,
    <<<<".", "h", "e", "i", "f">>,
      <<"i", "m", "a", "g", "e", "/", "h", "e", "i", "f">>>>,
    <<<<".", "w", "a", "v">>,
      <<"a", "u", "d", "i", "o", "/", "w", "a", "v">>>>,
    <<<<".", "m", "p", "3">>,
      <<"a", "u", "d", "i", "o", "/", "m", "p", "3">>>>,
    <<<<".", "a", "i", "f", "f">>,
      <<"a", "u", "d", "i", "o", "/", "a", "i", "f", "f">>>>,
    <<<<".", "a", "i", "f">>,
      <<"a", "u", "d", "i", "o", "/", "a", "i", "f", "f">>>>,
    <<<<".", "a", "a", "c">>,
      <<"a", "u", "d", "i", "o", "/", "a", "a", "c">>>>,
    <<<<".", "o", "g", "g">>,
      <<"a", "u", "d", "i", "o", "/", "o", "g", "g">>>>,
    <<<<".", "f", "l", "a", "c">>,
      <<"a", "u", "d", "i", "o", "/", "f", "l", "a", "c">>>>,
    <<<<".", "m", "p", "4">>,
      <<"v", "i", "d", "e", "o", "/", "m", "p", "4">>>>,
    <<<<".", "m", "p", "e", "g">>,
      <<"v", "i", "d", "e", "o", "/", "m", "p", "e", "g">>>>,
    <<<<".", "m", "p", "g">>,
      <<"v", "i", "d", "e", "o", "/", "m", "p", "g">>>>,
    <<<<".", "m", "o", "v">>,
      <<"v", "i", "d", "e", "o", "/", "m", "o", "v">>>>,
    <<<<".", "a", "v", "i">>,
      <<"v", "i", "d", "e", "o", "/", "a", "v", "i">>>>,
    <<<<".", "f", "l", "v">>,
      <<"v", "i", "d", "e", "o", "/", "x", "-", "f", "l", "v">>>>,
    <<<<".", "w", "e", "b", "m">>,
      <<"v", "i", "d", "e", "o", "/", "w", "e", "b", "m">>>>,
    <<<<".", "w", "m", "v">>,
      <<"v", "i", "d", "e", "o", "/", "w", "m", "v">>>>,
    <<<<".", "3", "g", "p">>,
      <<"v", "i", "d", "e", "o", "/", "3", "g", "p", "p">>>>,
    <<<<".", "3", "g", "p", "p">>,
      <<"v", "i", "d", "e", "o", "/", "3", "g", "p", "p">>>>,
    <<<<".", "p", "d", "f">>,
      <<"a", "p", "p", "l", "i", "c", "a", "t", "i", "o", "n", "/", "p", "d", "f">>>>,
    <<<<".", "t", "x", "t">>,
      <<"t", "e", "x", "t", "/", "p", "l", "a", "i", "n">>>>,
    <<<<".", "m", "d">>,
      <<"t", "e", "x", "t", "/", "m", "a", "r", "k", "d", "o", "w", "n">>>>,
    <<<<".", "h", "t", "m", "l">>,
      <<"t", "e", "x", "t", "/", "h", "t", "m", "l">>>>,
    <<<<".", "h", "t", "m">>,
      <<"t", "e", "x", "t", "/", "h", "t", "m", "l">>>>,
    <<<<".", "x", "m", "l">>,
      <<"t", "e", "x", "t", "/", "x", "m", "l">>>>,
    <<<<".", "c", "s", "s">>,
      <<"t", "e", "x", "t", "/", "c", "s", "s">>>>,
    <<<<".", "j", "s">>,
      <<"t", "e", "x", "t", "/", "j", "a", "v", "a", "s", "c", "r", "i", "p", "t">>>>,
    <<<<".", "t", "s">>,
      <<"t", "e", "x", "t", "/", "t", "y", "p", "e", "s", "c", "r", "i", "p", "t">>>>,
    <<<<".", "j", "s", "o", "n">>,
      <<"a", "p", "p", "l", "i", "c", "a", "t", "i", "o", "n", "/", "j", "s", "o", "n">>>>,
    <<<<".", "c", "s", "v">>,
      <<"t", "e", "x", "t", "/", "c", "s", "v">>>>,
    <<<<".", "r", "t", "f">>,
      <<"a", "p", "p", "l", "i", "c", "a", "t", "i", "o", "n", "/", "r", "t", "f">>>>
    >>

\* SUPPORTED_MIME_TYPES[ext]
MimeTypeOf(ext) ==
    IF \E i \in 1..Len(SUPPORTED_MIME_TYPES) : SUPPORTED_MIME_TYPES[i][1] = ext
    THEN SUPPORTED_MIME_TYPES[
            CHOOSE i \in 1..Len(SUPPORTED_MIME_TYPES) : SUPPORTED_MIME_TYPES[i][1] = ext][2]
    ELSE Undefined

\* Object.keys(SUPPORTED_MIME_TYPES)
SupportedExtensions == [i \in 1..Len(SUPPORTED_MIME_TYPES) |-> SUPPORTED_MIME_TYPES[i][1]]

-----------------------------------------------------------------------------
(* providers/gemini-text.ts *)

S_VALIDATION_ERROR == <<"V", "A", "L", "I", "D", "A", "T", "I", "O", "N", "_", "E", "R", "R",
    "O", "R">>
S_colonSpace == <<":", " ">>
S_FileNotFound == <<"F", "i", "l", "e", " ", "n", "o", "t", " ", "f", "o", "u", "n", "d",
    ":", " ">>
S_UnsupportedFileType == <<"U", "n", "s", "u", "p", "p", "o", "r", "t", "e", "d", " ", "f",
    "i", "l", "e", " ", "t", "y", "p", "e", " ", "\"">>
S_SupportedTypes == <<"\"", ".", " ", "S", "u", "p", "p", "o", "r", "t", "e", "d", " ", "t",
    "y", "p", "e", "s", ":", " ">>
S_TypeErrorIncludes == <<"C", "a", "n", "n", "o", "t", " ", "r", "e", "a", "d", " ", "p",
    "r", "o", "p", "e", "r", "t", "i", "e", "s", " ", "o", "f", " ", "u", "n", "d", "e", "f",
    "i", "n", "e", "d", " ", "(", "r", "e", "a", "d", "i", "n", "g", " ", "'", "i", "n", "c",
    "l", "u", "d", "e", "s", "'", ")">>
S_API_key == <<"A", "P", "I", " ", "k", "e", "y">>
S_API_KEY == <<"A", "P", "I", "_", "K", "E", "Y">>
S_quota == <<"q", "u", "o", "t", "a">>
S_rate == <<"r", "a", "t", "e">>
S_safety == <<"s", "a", "f", "e", "t", "y">>
S_blocked == <<"b", "l", "o", "c", "k", "e", "d">>
S_GENERATION_ERROR == <<"G", "E", "N", "E", "R", "A", "T", "I", "O", "N", "_", "E", "R", "R",
    "O", "R">>
S_AUTH_ERROR == <<"A", "U", "T", "H", "_", "E", "R", "R", "O", "R">>
S_RATE_LIMIT == <<"R", "A", "T", "E", "_", "L", "I", "M", "I", "T">>
S_SAFETY_BLOCK == <<"S", "A", "F", "E", "T", "Y", "_", "B", "L", "O", "C", "K">>
S_CONTENT_BLOCKED == <<"C", "O", "N", "T", "E", "N", "T", "_", "B", "L", "O", "C", "K", "E",
    "D">>
S_UnknownGeneration == <<"U", "n", "k", "n", "o", "w", "n", " ", "e", "r", "r", "o", "r",
    " ", "d", "u", "r", "i", "n", "g", " ", "g", "e", "n", "e", "r", "a", "t", "i", "o",
    "n">>
S_AuthMessage == <<"I", "n", "v", "a", "l", "i", "d", " ", "o", "r", " ", "m", "i", "s", "s",
    "i", "n", "g", " ", "G", "e", "m", "i", "n", "i", " ", "A", "P", "I", " ", "k", "e",
    "y">>
S_RateMessage == <<"G", "e", "m", "i", "n", "i", " ", "A", "P", "I", " ", "r", "a", "t", "e",
    " ", "l", "i", "m", "i", "t", " ", "o", "r", " ", "q", "u", "o", "t", "a", " ", "e", "x",
    "c", "e", "e", "d", "e", "d", ".", " ", "P", "l", "e", "a", "s", "e", " ", "w", "a", "i",
    "t", " ", "a", "n", "d", " ", "r", "e", "t", "r", "y", ".">>
S_TextSafetyMessage == <<"C", "o", "n", "t", "e", "n", "t", " ", "w", "a", "s", " ", "b",
    "l", "o", "c", "k", "e", "d", " ", "b", "y", " ", "G", "e", "m", "i", "n", "i", " ", "s",
    "a", "f", "e", "t", "y", " ", "f", "i", "l", "t", "e", "r", "s">>
S_BlockedMessage == <<"R", "e", "q", "u", "e", "s", "t", " ", "w", "a", "s", " ", "b", "l",
    "o", "c", "k", "e", "d", ".", " ", "T", "r", "y", " ", "r", "e", "p", "h", "r", "a", "s",
    "i", "n", "g", " ", "t", "h", "e", " ", "p", "r", "o", "m", "p", "t", ".">>
S_TextTimeoutMessage == <<"R", "e", "q", "u", "e", "s", "t", " ", "t", "i", "m", "e", "d",
    " ", "o", "u", "t", ".", " ", "T", "h", "e", " ", "p", "r", "o", "m", "p", "t", " ", "m",
    "a", "y", " ", "b", "e", " ", "t", "o", "o", " ", "c", "o", "m", "p", "l", "e", "x", " ",
    "o", "r", " ", "t", "h", "e", " ", "s", "e", "r", "v", "i", "c", "e", " ", "i", "s", " ",
    "s", "l", "o", "w", ".">>
S_systemClose == <<"<", "/", "s", "y", "s", "t", "e", "m", ">">>
S_systemOpen == <<"<", "s", "y", "s", "t", "e", "m", ">", "\n">>

TEXT_DEFAULT_TIMEOUT_MS == 300000

\* The files on disk
F_png == <<"/", "d", "/", "a", ".", "P", "N", "G">>
F_png2 == <<"/", "d", "/", "e", ".", "p", "n", "g">>
F_gif == <<"/", "d", "/", "b", ".", "g", "i", "f">>
F_pdf == <<"/", "d", "/", "c", ".", "p", "d", "f">>
F_noext == <<"/", "d", ".", "x", "/", "R", "E", "A", "D", "M", "E">>
F_bmp == <<"/", "d", "/", "f", ".", "B", "m", "p">>
F_tiff == <<"/", "d", "/", "g", ".", "t", "i", "f", "f">>
F_nogif == <<"/", "d", "/", "h", ".", "g", "i", "f">>
ExistingFiles == {F_png, F_png2, F_gif, F_noext, F_bmp, F_tiff}

existsSync_Always(path) == TRUE

\* fs.existsSync
existsSync(path) == path \in ExistingFiles

\* A variant that lets every extension through
getMimeTypeError_AnyExtension(filePath) == NoError

\* getMimeType: the failure it throws for an extension the table lacks, or no failure
getMimeTypeError(filePath) ==
    LET ext == toLowerCase(extname(filePath))
    IN IF MimeTypeOf(ext) = Undefined
       THEN Failure(S_UnsupportedFileType \o ext \o S_SupportedTypes
                        \o join(SupportedExtensions, S_commaSpace), <<"getMimeType", 0>>)
       ELSE NoError

\* The parts of a request's contents and of a response's candidates
InlineData(mimeType, data) == [kind |-> "inlineData", mimeType |-> mimeType, data |-> data]
TextPart(text) == [kind |-> "text", mimeType |-> <<>>, data |-> text]
ResponseText(text, thought) ==
    [kind |-> "text", mimeType |-> <<>>, data |-> text, thought |-> thought]

\* generate, the loop over files: the first failure ends it; each file before it has
\* been read and pushed. The base64 data of a file is identified by its path.
RECURSIVE ResolveFiles(_, _, _)
ResolveFiles(files, reads, parts) ==
    IF files = <<>> THEN [error |-> NoError, reads |-> reads, parts |-> parts]
    ELSE LET filePath == Head(files)
         IN IF ~existsSync(filePath)
            THEN [error |-> Failure(S_FileNotFound \o filePath, <<"generate", 0>>),
                  reads |-> reads, parts |-> parts]
            ELSE IF getMimeTypeError(filePath) # NoError
            THEN [error |-> getMimeTypeError(filePath), reads |-> reads, parts |-> parts]
            ELSE ResolveFiles(Tail(files), Append(reads, filePath),
                    Append(parts,
                           InlineData(MimeTypeOf(toLowerCase(extname(filePath))), filePath)))

\* const { model = DEFAULT_TEXT_MODEL, thinkingLevel = "high", files = [] } = options
TextModel == IF req.model = Undefined THEN DEFAULT_TEXT_MODEL ELSE req.model
TextThinkingLevel == IF req.thinkingLevel = Undefined THEN L_high ELSE req.thinkingLevel
TextFiles == IF req.files = UndefinedList THEN <<>> ELSE req.files

\* A variant that leaves the system block out
TextPrompt_NoSystem == req.prompt

\* The text prompt, prefixed by the system block when a system prompt is given
TextPrompt ==
    IF Truthy(req.systemPrompt)
    THEN S_systemOpen \o req.systemPrompt \o <<"\n">> \o S_systemClose \o <<"\n", "\n">>
            \o req.prompt
    ELSE req.prompt

\* A variant that throws the validation message without its category
ThinkingLevelFailure_Untagged(validationError) ==
    Failure(validationError, <<"generate", 0>>)

\* throw new Error(`VALIDATION_ERROR: ${validationError}`)
ThinkingLevelFailure(validationError) ==
    Failure(S_VALIDATION_ERROR \o S_colonSpace \o validationError, <<"generate", 0>>)

\* generate, up to the try block: the thinking level is validated, then the files are
\* resolved in order, then the prompt is pushed; any failure is thrown as it is
TextGenerate ==
    /\ pc = "text_generate"
    /\ IF TextModel \notin DOMAIN MODEL_THINKING_LEVELS
       THEN \* supportedLevels is undefined: supportedLevels.includes throws a TypeError
            /\ provResult' = Thrown(Failure(S_TypeErrorIncludes, <<"generate", 0>>))
            /\ pc' = "provider_done"
            /\ UNCHANGED <<fsReads, contents>>
       ELSE IF validateThinkingLevel(TextModel, TextThinkingLevel) # Undefined
       THEN /\ provResult' =
                Thrown(ThinkingLevelFailure(
                           validateThinkingLevel(TextModel, TextThinkingLevel)))
            /\ pc' = "provider_done"
            /\ UNCHANGED <<fsReads, contents>>
       ELSE LET r == ResolveFiles(TextFiles, <<>>, <<>>)
            IN /\ fsReads' = r.reads
               /\ IF r.error # NoError
                  THEN /\ provResult' = Thrown(r.error)
                       /\ contents' = r.parts
                       /\ pc' = "provider_done"
                  ELSE /\ contents' = Append(r.parts, TextPart(TextPrompt))
                       /\ pc' = "retry_enter"
                       /\ UNCHANGED provResult
    /\ UNCHANGED <<parked, req, now, retryVars, races, vendorCalls, outcome, fsWrites, usageLog,
                   research>>

\* generate, the catch block's classification: the category and the message
TextClassify(error) ==
    LET m == error.message
    IN IF includes(m, S_API_key) \/ includes(m, S_API_KEY)
       THEN <<S_AUTH_ERROR, S_AuthMessage>>
       ELSE IF includes(m, S_quota) \/ includes(m, S_rate) \/ includes(m, P_429)
       THEN <<S_RATE_LIMIT, S_RateMessage>>
       ELSE IF includes(m, S_safety) THEN <<S_SAFETY_BLOCK, S_TextSafetyMessage>>
       ELSE IF includes(m, S_blocked) THEN <<S_CONTENT_BLOCKED, S_BlockedMessage>>
       ELSE IF includes(m, S_TIMEOUT) THEN <<S_TIMEOUT, S_TextTimeoutMessage>>
       ELSE <<S_GENERATION_ERROR, IF m = <<>> THEN S_UnknownGeneration ELSE m>>

UsageRecord(operation, success, error) ==
    [operation |-> operation, success |-> success, error |-> error]

S_ThinkingSummary == <<"\n", "\n", "-", "-", "-", "\n", "*", "*", "T", "h", "i", "n", "k",
    "i", "n", "g", " ", "S", "u", "m", "m", "a", "r", "y", ":", "*", "*", "\n">>

\* The texts of the parts that carry text, thoughts or answers, in order; each thought
\* is followed by a line break
RECURSIVE PartsText(_, _)
PartsText(parts, thought) ==
    IF parts = <<>> THEN <<>>
    ELSE LET part == Head(parts)
         IN (IF part.kind = "text" /\ Truthy(part.data) /\ part.thought = thought
             THEN part.data \o (IF thought THEN <<"\n">> ELSE <<>>)
             ELSE <<>>)
                \o PartsText(Tail(parts), thought)

\* A variant that sets the counters the vendor left out to 0
TextUsage_Defaulted(usageMetadata) ==
    LET orZero(n) == IF n.present THEN n ELSE Num(0)
    IN IF usageMetadata.present
       THEN [present |-> TRUE,
             promptTokens |-> orZero(usageMetadata.promptTokenCount),
             completionTokens |-> orZero(usageMetadata.candidatesTokenCount),
             totalTokens |-> orZero(usageMetadata.totalTokenCount),
             thoughtsTokens |-> orZero(usageMetadata.thoughtsTokenCount)]
       ELSE NoUsage

\* generate, the usage of the result: the vendor's counters, when it sent any
TextUsage(usageMetadata) ==
    IF usageMetadata.present
    THEN [present |-> TRUE,
          promptTokens |-> usageMetadata.promptTokenCount,
          completionTokens |-> usageMetadata.candidatesTokenCount,
          totalTokens |-> usageMetadata.totalTokenCount,
          thoughtsTokens |-> usageMetadata.thoughtsTokenCount]
    ELSE NoUsage

\* A variant that never appends the thinking summary
TextDemux_NoSummary(response) ==
    IF Truthy(response.text) THEN response.text
    ELSE IF Len(response.candidates) > 0 THEN PartsText(response.candidates[1], FALSE)
    ELSE <<>>

\* generate, the text of the result: the response's direct text, or the answer parts of
\* its first candidate, followed by the thinking summary when there are thoughts
TextDemux(response) ==
    LET parts == IF ~Truthy(response.text) /\ Len(response.candidates) > 0
                 THEN response.candidates[1] ELSE <<>>
        text == IF Truthy(response.text) THEN response.text ELSE PartsText(parts, FALSE)
        thoughtSummary == PartsText(parts, TRUE)
    IN IF thoughtSummary # <<>> THEN text \o S_ThinkingSummary \o thoughtSummary ELSE text

\* generate, after withRetry: on success the usage is logged and the result returned; on
\* failure the catch block classifies it, logs the usage and throws the tagged failure
TextAfterCall ==
    /\ pc = "retry_done"
    /\ req.tool = "generate_text"
    /\ IF retryResult.kind = "returned"
       THEN /\ usageLog' = Append(usageLog, UsageRecord("generate_text", TRUE, <<>>))
            /\ provResult' = GenerationResult(TextDemux(retryResult.value),
                                               TextUsage(retryResult.value.usageMetadata))
       ELSE LET c == TextClassify(retryResult.error)
                tagged == c[1] \o S_colonSpace \o c[2]
            IN /\ usageLog' = Append(usageLog, UsageRecord("generate_text", FALSE, tagged))
               /\ provResult' = Thrown(Failure(tagged, <<"generate", 1>>))
    /\ pc' = "provider_done"
    /\ UNCHANGED <<parked, req, now, retryVars, races, vendorCalls, outcome, fsReads, fsWrites,
                   contents, research>>

-----------------------------------------------------------------------------
(* providers/gemini-image.ts *)

M_nano_banana == <<"n", "a", "n", "o", "-", "b", "a", "n", "a", "n", "a">>
M_nano_banana_pro == <<"n", "a", "n", "o", "-", "b", "a", "n", "a", "n", "a", "-", "p", "r",
    "o">>
ID_nano_banana == <<"g", "e", "m", "i", "n", "i", "-", "2", ".", "5", "-", "f", "l", "a",
    "s", "h", "-", "p", "r", "e", "v", "i", "e", "w", "-", "i", "m", "a", "g", "e", "-", "g",
    "e", "n", "e", "r", "a", "t", "i", "o", "n">>
ID_nano_banana_pro == <<"g", "e", "m", "i", "n", "i", "-", "2", ".", "0", "-", "f", "l", "a",
    "s", "h", "-", "e", "x", "p", "-", "i", "m", "a", "g", "e", "-", "g", "e", "n", "e", "r",
    "a", "t", "i", "o", "n">>

SUPPORTED_IMAGE_MODELS == <<M_nano_banana, M_nano_banana_pro>>

isSupportedImageModel(model) == ArrayIncludes(SUPPORTED_IMAGE_MODELS, model)

IMAGE_MODEL_IDS ==
    [m \in {M_nano_banana, M_nano_banana_pro} |->
        IF m = M_nano_banana THEN ID_nano_banana ELSE ID_nano_banana_pro]

\* Maximum reference images per model
MAX_REFERENCE_IMAGES ==
    [m \in {M_nano_banana, M_nano_banana_pro} |-> IF m = M_nano_banana THEN 3 ELSE 14]

IMAGE_DEFAULT_TIMEOUT_MS == 180000

VALID_ASPECT_RATIOS == <<
    <<"1", ":", "1">>, <<"2", ":", "3">>, <<"3", ":", "2">>, <<"3", ":", "4">>,
    <<"4", ":", "3">>, <<"4", ":", "5">>, <<"5", ":", "4">>, <<"9", ":", "1", "6">>,
    <<"1", "6", ":", "9">>, <<"2", "1", ":", "9">>>>

S_InvalidAspect == <<"I", "n", "v", "a", "l", "i", "d", " ", "a", "s", "p", "e", "c", "t",
    " ", "r", "a", "t", "i", "o", " ", "\"">>
S_ValidOptions == <<"\"", ".", " ", "V", "a", "l", "i", "d", " ", "o", "p", "t", "i", "o",
    "n", "s", ":", " ">>
S_Maximum == <<"M", "a", "x", "i", "m", "u", "m", " ">>
S_RefImagesAllowed == <<" ", "r", "e", "f", "e", "r", "e", "n", "c", "e", " ", "i", "m", "a",
    "g", "e", "s", " ", "a", "l", "l", "o", "w", "e", "d", " ", "f", "o", "r", " ">>
S_NoImageData == <<"N", "o", " ", "i", "m", "a", "g", "e", " ", "d", "a", "t", "a", " ", "f",
    "o", "u", "n", "d", " ", "i", "n", " ", "r", "e", "s", "p", "o", "n", "s", "e">>
S_UnknownImageGeneration == <<"U", "n", "k", "n", "o", "w", "n", " ", "e", "r", "r", "o",
    "r", " ", "d", "u", "r", "i", "n", "g", " ", "i", "m", "a", "g", "e", " ", "g", "e", "n",
    "e", "r", "a", "t", "i", "o", "n">>
S_ImageSafetyMessage == <<"I", "m", "a", "g", "e", " ", "w", "a", "s", " ", "b", "l", "o",
    "c", "k", "e", "d", " ", "b", "y", " ", "G", "e", "m", "i", "n", "i", " ", "s", "a", "f",
    "e", "t", "y", " ", "f", "i", "l", "t", "e", "r", "s">>
S_ImageTimeoutMessage == <<"R", "e", "q", "u", "e", "s", "t", " ", "t", "i", "m", "e", "d",
    " ", "o", "u", "t", ".", " ", "T", "h", "e", " ", "i", "m", "a", "g", "e", " ", "g", "e",
    "n", "e", "r", "a", "t", "i", "o", "n", " ", "m", "a", "y", " ", "b", "e", " ", "t", "a",
    "k", "i", "n", "g", " ", "t", "o", "o", " ", "l", "o", "n", "g", ".">>
S_image_png == <<"i", "m", "a", "g", "e", "/", "p", "n", "g">>
S_dataColon == <<"d", "a", "t", "a", ":">>
S_base64Comma == <<";", "b", "a", "s", "e", "6", "4", ",">>

\* const { model = "nano-banana", referenceImages = [] } = options
ImageModel == IF req.model = Undefined THEN M_nano_banana ELSE req.model
ImageReferenceImages ==
    IF req.referenceImages = UndefinedList THEN <<>> ELSE req.referenceImages

\* referenceImage.match(/^data:([^;]+);base64,(.+)$/): the MIME type and the data, or no
\* match
MatchDataUrl(s) ==
    LET semis == {i \in 6..Len(s) : s[i] = ";"}
        k == IF semis = {} THEN 0 ELSE MinOf(semis)
    IN IF /\ startsWith(s, S_dataColon)
          /\ k > 6
          /\ Len(s) >= k + 8
          /\ SubSeq(s, k, k + 7) = S_base64Comma
          /\ \A i \in (k + 8)..Len(s) : s[i] \notin {"\n", "\r"}
       THEN [matched |-> TRUE, mimeType |-> SubSeq(s, 6, k - 1),
             data |-> SubSeq(s, k + 8, Len(s))]
       ELSE [matched |-> FALSE, mimeType |-> <<>>, data |-> <<>>]

\* One reference image as an inline-data element: the MIME type of a data URL, PNG
\* otherwise
ReferencePart(referenceImage) ==
    IF startsWith(referenceImage, S_dataColon) /\ MatchDataUrl(referenceImage).matched
    THEN InlineData(MatchDataUrl(referenceImage).mimeType, MatchDataUrl(referenceImage).data)
    ELSE InlineData(S_image_png, referenceImage)

\* The contents of the vendor call: the prompt alone, or the reference images and then
\* the prompt
ImageContents(referenceImages, prompt) ==
    IF Len(referenceImages) > 0
    THEN [i \in 1..(Len(referenceImages) + 1) |->
            IF i <= Len(referenceImages) THEN ReferencePart(referenceImages[i])
            ELSE TextPart(prompt)]
    ELSE <<TextPart(prompt)>>

\* generate, up to the vendor call: the aspect ratio and the number of reference images
\* are checked, and a failure is thrown as it is; then the contents are assembled. For a
\* model MAX_REFERENCE_IMAGES lacks, maxImages is undefined and the comparison is false.
ImageGenerate ==
    /\ pc = "image_generate"
    /\ IF Truthy(req.aspectRatio) /\ ~ArrayIncludes(VALID_ASPECT_RATIOS, req.aspectRatio)
       THEN /\ provResult' =
                Thrown(Failure(S_InvalidAspect \o req.aspectRatio \o S_ValidOptions
                                  \o join(VALID_ASPECT_RATIOS, S_commaSpace),
                               <<"generate", 0>>))
            /\ pc' = "provider_done"
            /\ UNCHANGED contents
       ELSE IF /\ ImageModel \in DOMAIN MAX_REFERENCE_IMAGES
               /\ Len(ImageReferenceImages) > MAX_REFERENCE_IMAGES[ImageModel]
       THEN /\ provResult' =
                Thrown(Failure(S_Maximum \o NumberToString(MAX_REFERENCE_IMAGES[ImageModel])
                                  \o S_RefImagesAllowed \o ImageModel,
                               <<"generate", 0>>))
            /\ pc' = "provider_done"
            /\ UNCHANGED contents
       ELSE /\ contents' = ImageContents(ImageReferenceImages, req.prompt)
            /\ pc' = "retry_enter"
            /\ UNCHANGED provResult
    /\ UNCHANGED <<parked, req, now, retryVars, races, vendorCalls, outcome, fsReads, fsWrites,
                   usageLog, research>>

\* generate, the catch block's classification: the category and the message
ImageClassify(error) ==
    LET m == error.message
    IN IF includes(m, S_API_key) \/ includes(m, S_API_KEY)
       THEN <<S_AUTH_ERROR, S_AuthMessage>>
       ELSE IF includes(m, S_quota) \/ includes(m, S_rate) \/ includes(m, P_429)
       THEN <<S_RATE_LIMIT, S_RateMessage>>
       ELSE IF includes(m, S_safety) THEN <<S_SAFETY_BLOCK, S_ImageSafetyMessage>>
       ELSE IF includes(m, S_blocked) THEN <<S_CONTENT_BLOCKED, S_BlockedMessage>>
       ELSE IF includes(m, S_TIMEOUT) THEN <<S_TIMEOUT, S_ImageTimeoutMessage>>
       ELSE <<S_GENERATION_ERROR, IF m = <<>> THEN S_UnknownImageGeneration ELSE m>>

\* No image found so far
NoImage == [data |-> Undefined, mimeType |-> S_image_png]

\* A variant of the scan that takes the last part with inline data of a candidate
RECURSIVE ScanCandidates_LastPart(_, _)
ScanCandidates_LastPart(candidates, found) ==
    IF candidates = <<>> THEN found
    ELSE LET parts == Head(candidates)
             hits == {i \in 1..Len(parts) : parts[i].kind = "inlineData"}
         IN IF hits = {} THEN ScanCandidates_LastPart(Tail(candidates), found)
            ELSE LET part == parts[CHOOSE i \in hits : \A j \in hits : j <= i]
                     taken == [data |-> part.data,
                               mimeType |-> IF Truthy(part.mimeType) THEN part.mimeType
                                            ELSE S_image_png]
                 IN IF Truthy(taken.data) THEN taken
                    ELSE ScanCandidates_LastPart(Tail(candidates), taken)

\* The scan of the response's candidates: in each candidate the first part with inline
\* data is taken, and the scan stops at the first candidate whose data is not empty
RECURSIVE ScanCandidates(_, _)
ScanCandidates(candidates, found) ==
    IF candidates = <<>> THEN found
    ELSE LET parts == Head(candidates)
             hits == {i \in 1..Len(parts) : parts[i].kind = "inlineData"}
         IN IF hits = {} THEN ScanCandidates(Tail(candidates), found)
            ELSE LET part == parts[MinOf(hits)]
                     taken == [data |-> part.data,
                               mimeType |-> IF Truthy(part.mimeType) THEN part.mimeType
                                            ELSE S_image_png]
                 IN IF Truthy(taken.data) THEN taken
                    ELSE ScanCandidates(Tail(candidates), taken)

\* path.dirname
dirname(path) ==
    LET k == LastIndexOf(path, "/")
    IN IF k = 0 THEN <<".">> ELSE IF k = 1 THEN <<"/">> ELSE SubSeq(path, 1, k - 1)

\* The directories on disk
ExistingDirs == {<<"/">>, <<"/", "d">>, <<".">>}

\* mkdirSync(outputDir, { recursive: true }) when the directory is missing
MakeDir(outputPath) ==
    IF Truthy(dirname(outputPath)) /\ dirname(outputPath) \notin ExistingDirs
    THEN <<[op |-> "mkdir", path |-> dirname(outputPath), data |-> <<>>]>>
    ELSE <<>>

\* The writes that save the image: the directory is made when missing, then the file is
\* written
SaveImage(outputPath, data) ==
    MakeDir(outputPath) \o <<[op |-> "write", path |-> outputPath, data |-> data]>>

\* The message of the failure writeFileSync throws when the file system refuses the write
S_WriteFailed == <<"E", "A", "C", "C", "E", "S", ":", " ", "p", "e", "r", "m", "i", "s", "s",
    "i", "o", "n", " ", "d", "e", "n", "i", "e", "d", ",", " ", "o", "p", "e", "n", " ",
    "'">>
WriteFailure(outputPath) ==
    Failure(S_WriteFailed \o outputPath \o <<"'">>, <<"writeFileSync", 0>>)

\* generate, the usage of the result: the vendor's counters, when it sent any
ImageUsage(usageMetadata) ==
    IF usageMetadata.present
    THEN [present |-> TRUE,
          promptTokens |-> usageMetadata.promptTokenCount,
          completionTokens |-> usageMetadata.candidatesTokenCount,
          totalTokens |-> usageMetadata.totalTokenCount]
    ELSE NoUsage

\* The failure the catch block throws for `error`, and the usage it logs
ImageFail(error) ==
    LET c == ImageClassify(error)
        tagged == c[1] \o S_colonSpace \o c[2]
    IN /\ usageLog' = Append(usageLog, UsageRecord("generate_image", FALSE, tagged))
       /\ provResult' = Thrown(Failure(tagged, <<"generate", 1>>))

\* generate, after withRetry: the image is looked for in the response and saved, the
\* usage is logged; a failure of withRetry, a response without an image, or a write the
\* file system refuses goes through the catch block
ImageAfterCall ==
    /\ pc = "retry_done"
    /\ req.tool = "generate_image"
    /\ IF retryResult.kind = "returned"
       THEN LET image == ScanCandidates(retryResult.value.candidates, NoImage)
            IN IF ~Truthy(image.data)
               THEN /\ ImageFail(Failure(S_NoImageData, <<"generate", 2>>))
                    /\ UNCHANGED fsWrites
               ELSE \/ /\ fsWrites' = fsWrites \o SaveImage(req.outputPath, image.data)
                       /\ usageLog' =
                            Append(usageLog, UsageRecord("generate_image", TRUE, <<>>))
                       /\ provResult' =
                            GenerationResult(req.outputPath,
                                             ImageUsage(retryResult.value.usageMetadata))
                    \/ /\ fsWrites' = fsWrites \o MakeDir(req.outputPath)
                       /\ ImageFail(WriteFailure(req.outputPath))
       ELSE /\ ImageFail(retryResult.error)
            /\ UNCHANGED fsWrites
    /\ pc' = "provider_done"
    /\ UNCHANGED <<parked, req, now, retryVars, races, vendorCalls, outcome, fsReads, contents,
                   research>>

-----------------------------------------------------------------------------
(* The providers' call: withRetry(() => withTimeout(() => generateContent(...), T)) *)

\* The timeout each provider passes to withTimeout
ProviderTimeoutMs ==
    IF req.tool = "generate_text" THEN TEXT_DEFAULT_TIMEOUT_MS ELSE IMAGE_DEFAULT_TIMEOUT_MS

\* model: apiModelId, the entry of the provider's table of model ids
ProviderModelId ==
    IF req.tool = "generate_text" THEN Lookup(TEXT_MODEL_IDS, TextModel)
    ELSE Lookup(IMAGE_MODEL_IDS, ImageModel)

\* config.imageGenerationConfig.aspectRatio, set when the request's aspect ratio is
\* truthy; the text provider's config has none
ProviderAspectRatio ==
    IF req.tool = "generate_image" /\ Truthy(req.aspectRatio) THEN req.aspectRatio
    ELSE Undefined

\* A variant in which the attempts of one invocation share the first attempt's deadline
AttemptRace_SharedDeadline(t, timeoutMs) ==
    IF races = <<>> THEN NewRace(t, timeoutMs)
    ELSE [NewRace(t, timeoutMs) EXCEPT !.deadline = races[1].deadline]

\* fn of withRetry: withTimeout(() => generateContent(...), timeoutMs), called at time t
AttemptRace(t, timeoutMs) == NewRace(t, timeoutMs)

\* withRetry, the loop head when fn is the provider's: the vendor call is sent and raced
\* against a timer of the provider's timeout; or the loop is left and lastError thrown
RetryInvokeWrapped ==
    /\ pc = "retry_loop"
    /\ req.tool \in {"generate_text", "generate_image"}
    /\ IF attempt <= opts.maxRetries + 1
       THEN /\ calls' = calls + 1
            /\ races' = Append(races, AttemptRace(now, ProviderTimeoutMs))
            /\ vendorCalls' = Append(vendorCalls,
                    [by |-> req.tool, request |-> "generateContent", id |-> ProviderModelId,
                     attempt |-> attempt, race |-> Len(races) + 1,
                     contents |-> contents, aspectRatio |-> ProviderAspectRatio])
            /\ pc' = "retry_await"
            /\ UNCHANGED retryResult
       ELSE /\ retryResult' =
                Thrown(IF lastError = NoError
                       THEN Failure(S_RetryFailedUnknown, <<"withRetry", 0>>)
                       ELSE lastError)
            /\ pc' = "retry_done"
            /\ UNCHANGED <<calls, races, vendorCalls>>
    /\ UNCHANGED <<parked, req, now, opts, attempt, delay, lastError, wakeAt, fnLog, sleeps>>
    /\ UNCHANGED <<outcome, orchVars>>

-----------------------------------------------------------------------------
(* providers/gemini-deep-research.ts *)

S_ResearchTimedOut == <<"T", "I", "M", "E", "O", "U", "T", ":", " ", "R", "e", "s", "e", "a",
    "r", "c", "h", " ", "t", "i", "m", "e", "d", " ", "o", "u", "t", " ", "a", "f", "t", "e",
    "r", " ">>
S_MinutesStillRunning == <<" ", "m", "i", "n", "u", "t", "e", "s", ".", " ", "T", "h", "e",
    " ", "r", "e", "s", "e", "a", "r", "c", "h", " ", "m", "a", "y", " ", "s", "t", "i", "l",
    "l", " ", "b", "e", " ", "r", "u", "n", "n", "i", "n", "g", " ", "-", " ", "i", "n", "t",
    "e", "r", "a", "c", "t", "i", "o", "n", " ", "I", "D", ":", " ">>
S_FailedToPoll == <<"A", "P", "I", "_", "E", "R", "R", "O", "R", ":", " ", "F", "a", "i",
    "l", "e", "d", " ", "t", "o", " ", "p", "o", "l", "l", " ", "r", "e", "s", "e", "a", "r",
    "c", "h", " ", "s", "t", "a", "t", "u", "s", ":", " ">>
S_dash == <<" ", "-", " ">>
S_CompletedNoOutput == <<"A", "P", "I", "_", "E", "R", "R", "O", "R", ":", " ", "R", "e",
    "s", "e", "a", "r", "c", "h", " ", "c", "o", "m", "p", "l", "e", "t", "e", "d", " ", "b",
    "u", "t", " ", "n", "o", " ", "o", "u", "t", "p", "u", "t", " ", "t", "e", "x", "t", " ",
    "f", "o", "u", "n", "d">>
S_RESEARCH_FAILED == <<"R", "E", "S", "E", "A", "R", "C", "H", "_", "F", "A", "I", "L", "E",
    "D", ":", " ">>
S_ResearchFailedUnknown == <<"R", "e", "s", "e", "a", "r", "c", "h", " ", "f", "a", "i", "l",
    "e", "d", " ", "w", "i", "t", "h", " ", "u", "n", "k", "n", "o", "w", "n", " ", "e", "r",
    "r", "o", "r">>
S_AUTH_ERROR_c == <<"A", "U", "T", "H", "_", "E", "R", "R", "O", "R", ":", " ">>
S_RATE_LIMIT_c == <<"R", "A", "T", "E", "_", "L", "I", "M", "I", "T", ":", " ">>
S_API_ERROR_c == <<"A", "P", "I", "_", "E", "R", "R", "O", "R", ":", " ">>
S_FailedToStart == <<"F", "a", "i", "l", "e", "d", " ", "t", "o", " ", "s", "t", "a", "r",
    "t", " ", "r", "e", "s", "e", "a", "r", "c", "h", ":", " ">>
S_NoInteractionId == <<"A", "P", "I", "_", "E", "R", "R", "O", "R", ":", " ", "N", "o", " ",
    "i", "n", "t", "e", "r", "a", "c", "t", "i", "o", "n", " ", "I", "D", " ", "r", "e", "t",
    "u", "r", "n", "e", "d", " ", "f", "r", "o", "m", " ", "A", "P", "I">>
S_completed == <<"c", "o", "m", "p", "l", "e", "t", "e", "d">>
S_failed == <<"f", "a", "i", "l", "e", "d">>
S_in_progress == <<"i", "n", "_", "p", "r", "o", "g", "r", "e", "s", "s">>
S_API_KEY_INVALID == <<"A", "P", "I", "_", "K", "E", "Y", "_", "I", "N", "V", "A", "L", "I",
    "D">>

RESEARCH_DEFAULT_POLL_INTERVAL_MS == 10 * 1000

\* A variant whose requests name no interaction
ResearchCall_NoId(request, id) ==
    [by |-> "deep_research", request |-> request, id |-> <<>>,
     attempt |-> attempt, race |-> 0, contents |-> <<>>, aspectRatio |-> Undefined]

\* A request of the research provider: a bare fetch, in no withTimeout race (race 0) and
\* at whatever attempt withRetry is at (0: not entered)
ResearchCall(request, id) ==
    [by |-> "deep_research", request |-> request, id |-> id,
     attempt |-> attempt, race |-> 0, contents |-> <<>>, aspectRatio |-> Undefined]

\* research, up to the first await: the start time is taken and startResearch sends the
\* POST that creates the interaction. The caller's timeoutMs is already in place.
ResearchBegin ==
    /\ pc = "research"
    /\ research' = [research EXCEPT !.startTime = now,
                                    !.pollIntervalMs = RESEARCH_DEFAULT_POLL_INTERVAL_MS,
                                    !.sentAt = now]
    /\ vendorCalls' = Append(vendorCalls, ResearchCall("start", <<>>))
    /\ pc' = "research_start_await"
    /\ UNCHANGED <<parked, req, now, retryVars, races, outcome, provResult, fsReads, fsWrites,
                   contents, usageLog>>

\* The body of a response that is not OK: JSON (an object, or an array wrapping it, with
\* an optional error message and optional detail reasons), or text JSON.parse rejects
JsonBody(wrapped, message, reasons) ==
    [json |-> TRUE, wrapped |-> wrapped, message |-> message, reasons |-> reasons,
     text |-> <<>>]
TextBody(text) ==
    [json |-> FALSE, wrapped |-> FALSE, message |-> Undefined, reasons |-> UndefinedList,
     text |-> text]

StartResponse(ok, status, id, body) == [ok |-> ok, status |-> status, id |-> id, body |-> body]

\* startResearch, the message of the failure for a response that is not OK
StartErrorMessage(response) ==
    LET body == response.body
    IN IF body.json
       THEN IF Truthy(body.message) THEN body.message
            ELSE S_FailedToStart \o NumberToString(response.status)
       ELSE IF Truthy(body.text) THEN body.text
            ELSE S_FailedToStart \o NumberToString(response.status)

\* A variant that never finds the reason code
StartIsAuthError_Never(response) == FALSE

\* startResearch: errorJson.error.details.some(d => d.reason === "API_KEY_INVALID")
StartIsAuthError(response) ==
    /\ response.body.json
    /\ response.body.reasons # UndefinedList
    /\ ArrayIncludes(response.body.reasons, S_API_KEY_INVALID)

\* startResearch, the failure thrown for a response that is not OK
StartFailure(response) ==
    LET m == StartErrorMessage(response)
    IN IF StartIsAuthError(response) \/ response.status = 401 \/ response.status = 403
       THEN S_AUTH_ERROR_c \o m
       ELSE IF response.status = 429 THEN S_RATE_LIMIT_c \o m
       ELSE S_API_ERROR_c \o m

\* The start request's response arrives: a failure is thrown through research, or the
\* interaction id is returned and the poll loop begins
StartResponds(response) ==
    /\ pc = "research_start_await"
    /\ IF ~response.ok
       THEN /\ provResult' = Thrown(Failure(StartFailure(response), <<"startResearch", 0>>))
            /\ pc' = "provider_done"
            /\ research' = [research EXCEPT !.start = response]
       ELSE IF ~Truthy(response.id)
       THEN /\ provResult' = Thrown(Failure(S_NoInteractionId, <<"startResearch", 1>>))
            /\ pc' = "provider_done"
            /\ research' = [research EXCEPT !.start = response]
       ELSE /\ research' = [research EXCEPT !.interactionId = response.id,
                                            !.start = response]
            /\ pc' = "research_poll"
            /\ UNCHANGED provResult
    /\ UNCHANGED <<parked, req, now, retryVars, races, vendorCalls, outcome, fsReads, fsWrites,
                   contents, usageLog>>

\* Math.round(elapsed / 1000 / 60), elapsed a non-negative number of milliseconds
RoundMinutes(elapsed) == (elapsed + 30000) \div 60000

\* A variant that sends the status request without looking at the budget
ResearchPoll_NoBudget ==
    /\ pc = "research_poll"
    /\ vendorCalls' = Append(vendorCalls, ResearchCall("poll", research.interactionId))
    /\ research' = [research EXCEPT !.polls = @ + 1, !.sentAt = now]
    /\ pc' = "research_poll_await"
    /\ UNCHANGED provResult
    /\ UNCHANGED <<parked, req, now, retryVars, races, outcome, fsReads, fsWrites, contents,
                   usageLog>>

\* pollForCompletion, the head of the loop: past the budget the TIMEOUT failure is
\* thrown, otherwise the status request is sent
ResearchPoll ==
    /\ pc = "research_poll"
    /\ LET elapsed == now - research.startTime
       IN IF elapsed > research.timeoutMs
          THEN /\ provResult' =
                    Thrown(Failure(S_ResearchTimedOut \o NumberToString(RoundMinutes(elapsed))
                                      \o S_MinutesStillRunning \o research.interactionId,
                                   <<"pollForCompletion", 0>>))
               /\ pc' = "provider_done"
               /\ UNCHANGED <<research, vendorCalls>>
          ELSE /\ vendorCalls' =
                    Append(vendorCalls, ResearchCall("poll", research.interactionId))
               /\ research' = [research EXCEPT !.polls = @ + 1, !.sentAt = now]
               /\ pc' = "research_poll_await"
               /\ UNCHANGED provResult
    /\ UNCHANGED <<parked, req, now, retryVars, races, outcome, fsReads, fsWrites, contents,
                   usageLog>>

\* The response of a status request: data.outputs holds each output's text (undefined
\* for an output without text), data.error the failure message
PollResponse(ok, status, errorText, dataStatus, outputs, error) ==
    [ok |-> ok, status |-> status, errorText |-> errorText,
     data |-> [status |-> dataStatus, outputs |-> outputs, error |-> error]]

\* A variant that keeps every element
filterTruthy_Keep(arr) == arr

\* arr.filter(Boolean)
RECURSIVE filterTruthy(_)
filterTruthy(arr) ==
    IF arr = <<>> THEN <<>>
    ELSE (IF Truthy(Head(arr)) THEN <<Head(arr)>> ELSE <<>>) \o filterTruthy(Tail(arr))

\* A variant that joins the fragments with a single line break
OutputText_SingleNewline(data) ==
    IF data.outputs = UndefinedList THEN <<>>
    ELSE join(filterTruthy(data.outputs), <<"\n">>)

\* data.outputs?.map((output) => output.text).filter(Boolean).join("\n\n") || ""
OutputText(data) ==
    IF data.outputs = UndefinedList THEN <<>>
    ELSE join(filterTruthy(data.outputs), <<"\n", "\n">>)

\* pollForCompletion's value: { text, status: "completed", model: "deep-research" }
ResearchResult(text) ==
    [text |-> text, status |-> S_completed,
     model |-> <<"d", "e", "e", "p", "-", "r", "e", "s", "e", "a", "r", "c", "h">>]

\* A variant that reports a failed research as completed without output
ResearchFailed_AsNoOutput(data) == Failure(S_CompletedNoOutput, <<"pollForCompletion", 3>>)

\* The failure thrown for a failed research:
\* `RESEARCH_FAILED: ${data.error?.message || "Research failed with unknown error"}`
ResearchFailed(data) ==
    Failure(S_RESEARCH_FAILED \o
                (IF Truthy(data.error) THEN data.error ELSE S_ResearchFailedUnknown),
            <<"pollForCompletion", 3>>)

\* The status of a response has been read (and logged): the statuses read so far are
\* counted and the last response is kept
Observed(data) == [research EXCEPT !.observed = @ + 1, !.last = data]

\* A variant in which a failed research is slept on like a research in progress
PollResponds_SleepsOnFailed(response) ==
    /\ pc = "research_poll_await"
    /\ LET data == response.data
       IN IF ~response.ok
          THEN /\ provResult' =
                    Thrown(Failure(S_FailedToPoll \o NumberToString(response.status)
                                      \o S_dash \o response.errorText,
                                   <<"pollForCompletion", 1>>))
               /\ pc' = "provider_done"
               /\ UNCHANGED research
          ELSE IF data.status = S_completed
          THEN /\ provResult' =
                    IF ~Truthy(OutputText(data))
                    THEN Thrown(Failure(S_CompletedNoOutput, <<"pollForCompletion", 2>>))
                    ELSE Returned(ResearchResult(OutputText(data)))
               /\ pc' = "provider_done"
               /\ research' = Observed(data)
          ELSE /\ research' =
                    [Observed(data) EXCEPT
                        !.wakeAt = now + research.pollIntervalMs,
                        !.inProgressOnly = research.inProgressOnly
                                              /\ data.status = S_in_progress]
               /\ pc' = "research_sleep"
               /\ UNCHANGED provResult
    /\ UNCHANGED <<parked, req, now, retryVars, races, vendorCalls, outcome, fsReads, fsWrites,
                   contents, usageLog>>

\* A variant that checks the budget again when the response arrives
PollResponds_BudgetOnArrival(response) ==
    /\ pc = "research_poll_await"
    /\ LET data == response.data
       IN IF now - research.startTime > research.timeoutMs
          THEN /\ provResult' =
                    Thrown(Failure(S_ResearchTimedOut
                                      \o NumberToString(RoundMinutes(now - research.startTime))
                                      \o S_MinutesStillRunning \o research.interactionId,
                                   <<"pollForCompletion", 0>>))
               /\ pc' = "provider_done"
               /\ research' = Observed(data)
          ELSE IF ~response.ok
          THEN /\ provResult' =
                    Thrown(Failure(S_FailedToPoll \o NumberToString(response.status)
                                      \o S_dash \o response.errorText,
                                   <<"pollForCompletion", 1>>))
               /\ pc' = "provider_done"
               /\ UNCHANGED research
          ELSE IF data.status = S_completed
          THEN /\ provResult' =
                    IF ~Truthy(OutputText(data))
                    THEN Thrown(Failure(S_CompletedNoOutput, <<"pollForCompletion", 2>>))
                    ELSE Returned(ResearchResult(OutputText(data)))
               /\ pc' = "provider_done"
               /\ research' = Observed(data)
          ELSE IF data.status = S_failed
          THEN /\ provResult' = Thrown(ResearchFailed(data))
               /\ pc' = "provider_done"
               /\ research' = Observed(data)
          ELSE /\ research' =
                    [Observed(data) EXCEPT
                        !.wakeAt = now + research.pollIntervalMs,
                        !.inProgressOnly = research.inProgressOnly
                                              /\ data.status = S_in_progress]
               /\ pc' = "research_sleep"
               /\ UNCHANGED provResult
    /\ UNCHANGED <<parked, req, now, retryVars, races, vendorCalls, outcome, fsReads, fsWrites,
                   contents, usageLog>>

\* A variant that sleeps on a response that is not OK when its status is 429 or 503
PollResponds_RetriesTransient(response) ==
    /\ pc = "research_poll_await"
    /\ LET data == response.data
       IN IF ~response.ok /\ response.status \in {429, 503}
          THEN /\ research' = [research EXCEPT !.wakeAt = now + research.pollIntervalMs]
               /\ pc' = "research_sleep"
               /\ UNCHANGED provResult
          ELSE IF ~response.ok
          THEN /\ provResult' =
                    Thrown(Failure(S_FailedToPoll \o NumberToString(response.status)
                                      \o S_dash \o response.errorText,
                                   <<"pollForCompletion", 1>>))
               /\ pc' = "provider_done"
               /\ UNCHANGED research
          ELSE IF data.status = S_completed
          THEN /\ provResult' =
                    IF ~Truthy(OutputText(data))
                    THEN Thrown(Failure(S_CompletedNoOutput, <<"pollForCompletion", 2>>))
                    ELSE Returned(ResearchResult(OutputText(data)))
               /\ pc' = "provider_done"
               /\ research' = Observed(data)
          ELSE IF data.status = S_failed
          THEN /\ provResult' = Thrown(ResearchFailed(data))
               /\ pc' = "provider_done"
               /\ research' = Observed(data)
          ELSE /\ research' =
                    [Observed(data) EXCEPT
                        !.wakeAt = now + research.pollIntervalMs,
                        !.inProgressOnly = research.inProgressOnly
                                              /\ data.status = S_in_progress]
               /\ pc' = "research_sleep"
               /\ UNCHANGED provResult
    /\ UNCHANGED <<parked, req, now, retryVars, races, vendorCalls, outcome, fsReads, fsWrites,
                   contents, usageLog>>

\* The status request's response arrives: a response that is not OK, a completed or a
\* failed research end the loop; any other status is slept on
PollResponds(response) ==
    /\ pc = "research_poll_await"
    /\ LET data == response.data
       IN IF ~response.ok
          THEN /\ provResult' =
                    Thrown(Failure(S_FailedToPoll \o NumberToString(response.status)
                                      \o S_dash \o response.errorText,
                                   <<"pollForCompletion", 1>>))
               /\ pc' = "provider_done"
               /\ UNCHANGED research
          ELSE IF data.status = S_completed
          THEN /\ provResult' =
                    IF ~Truthy(OutputText(data))
                    THEN Thrown(Failure(S_CompletedNoOutput, <<"pollForCompletion", 2>>))
                    ELSE Returned(ResearchResult(OutputText(data)))
               /\ pc' = "provider_done"
               /\ research' = Observed(data)
          ELSE IF data.status = S_failed
          THEN /\ provResult' = Thrown(ResearchFailed(data))
               /\ pc' = "provider_done"
               /\ research' = Observed(data)
          ELSE /\ research' =
                    [Observed(data) EXCEPT
                        !.wakeAt = now + research.pollIntervalMs,
                        !.inProgressOnly = research.inProgressOnly
                                              /\ data.status = S_in_progress]
               /\ pc' = "research_sleep"
               /\ UNCHANGED provResult
    /\ UNCHANGED <<parked, req, now, retryVars, races, vendorCalls, outcome, fsReads, fsWrites,
                   contents, usageLog>>

\* A variant that goes back to the head of the loop without waiting for the timer
ResearchWake_NoWait ==
    /\ pc = "research_sleep"
    /\ pc' = "research_poll"
    /\ UNCHANGED <<parked, req, now, retryVars, races, vendorCalls, outcome, orchVars>>

\* pollForCompletion, the sleep is over: back to the head of the loop
ResearchWake ==
    /\ pc = "research_sleep"
    /\ now >= research.wakeAt
    /\ pc' = "research_poll"
    /\ UNCHANGED <<parked, req, now, retryVars, races, vendorCalls, outcome, orchVars>>

\* fetch rejects (the network fails): the failure passes through research as it is
FetchRejects(m) ==
    /\ FetchInFlight
    /\ provResult' = Thrown(Failure(m, <<"fetch", Len(vendorCalls)>>))
    /\ pc' = "provider_done"
    /\ UNCHANGED <<parked, req, now, retryVars, races, vendorCalls, outcome, fsReads, fsWrites,
                   contents, usageLog, research>>

-----------------------------------------------------------------------------
(* index.ts: the CallTool request handler *)

S_ErrorPrefix == <<"E", "r", "r", "o", "r", ":", " ">>
S_PromptEmpty == <<"E", "r", "r", "o", "r", ":", " ", "P", "r", "o", "m", "p", "t", " ", "c",
    "a", "n", "n", "o", "t", " ", "b", "e", " ", "e", "m", "p", "t", "y">>
S_UnknownTextModel == <<"E", "r", "r", "o", "r", ":", " ", "U", "n", "k", "n", "o", "w", "n",
    " ", "t", "e", "x", "t", " ", "m", "o", "d", "e", "l", " ", "\"">>
S_SupportedModels == <<"\"", ".", " ", "S", "u", "p", "p", "o", "r", "t", "e", "d", " ", "m",
    "o", "d", "e", "l", "s", ":", " ">>
S_OutputPathRequired == <<"E", "r", "r", "o", "r", ":", " ", "o", "u", "t", "p", "u", "t",
    "_", "p", "a", "t", "h", " ", "i", "s", " ", "r", "e", "q", "u", "i", "r", "e", "d">>
S_UnknownImageModel == <<"E", "r", "r", "o", "r", ":", " ", "U", "n", "k", "n", "o", "w",
    "n", " ", "i", "m", "a", "g", "e", " ", "m", "o", "d", "e", "l", " ", "\"">>
S_ImageSavedTo == <<"I", "m", "a", "g", "e", " ", "s", "a", "v", "e", "d", " ", "t", "o",
    ":", " ">>
S_QueryEmpty == <<"E", "r", "r", "o", "r", ":", " ", "Q", "u", "e", "r", "y", " ", "c", "a",
    "n", "n", "o", "t", " ", "b", "e", " ", "e", "m", "p", "t", "y">>
S_UnknownResearch == <<"U", "n", "k", "n", "o", "w", "n", " ", "e", "r", "r", "o", "r", " ",
    "d", "u", "r", "i", "n", "g", " ", "d", "e", "e", "p", " ", "r", "e", "s", "e", "a", "r",
    "c", "h">>
S_UnknownTool == <<"E", "r", "r", "o", "r", ":", " ", "U", "n", "k", "n", "o", "w", "n", " ",
    "t", "o", "o", "l", " ", "\"">>
S_modelsJson == <<"{", " ", "\"", "m", "o", "d", "e", "l", "s", "\"", ":", " ", "[", ".",
    ".", ".", "]", " ", "}">>

\* The result the handler returns
ToolResult(isError, text) ==
    [kind |-> "result", isError |-> isError, text |-> text, usage |-> NoUsage]

\* The handler's promise rejects: an exception leaves the handler, and the caller gets
\* a protocol error with its message in place of a tool result
S_CannotDestructure == <<"C", "a", "n", "n", "o", "t", " ", "d", "e", "s", "t", "r", "u",
    "c", "t", "u", "r", "e", " ", "p", "r", "o", "p", "e", "r", "t", "y", " ", "'">>
S_OfArgsUndefined == <<"'", " ", "o", "f", " ", "'", "a", "r", "g", "s", "'", " ", "a", "s",
    " ", "i", "t", " ", "i", "s", " ", "u", "n", "d", "e", "f", "i", "n", "e", "d", ".">>
Uncaught(message) == [kind |-> "uncaught", isError |-> TRUE, text |-> message]

\* request.params.arguments is present; a request made without it carries the field
\* `arguments`, undefined
HasArguments(r) == "arguments" \notin DOMAIN r

\* const { prompt, ... } = args, or const { query, ... } = args, does not throw
Destructures(r) == r.tool \notin {"generate_text", "generate_image", "deep_research"}
                       \/ HasArguments(r)

\* const timeoutMs = (timeoutMinutes || 30) * 60 * 1000
ResearchTimeoutMs(timeoutMinutes) ==
    (IF timeoutMinutes.present /\ timeoutMinutes.value # 0 THEN timeoutMinutes.value ELSE 30)
        * 60 * 1000

\* !s || s.trim().length === 0
Blank(s) == ~Truthy(s) \/ Len(trim(s)) = 0

\* A variant that hands text calls to the image orchestrator
Orchestrator_ImageForText(name) ==
    CASE name = "generate_text" -> "image_generate"
      [] name = "generate_image" -> "image_generate"
      [] name = "deep_research" -> "research"
      [] OTHER -> "none"

\* The orchestrator a tool name is delegated to: where its code starts
Orchestrator(name) ==
    CASE name = "generate_text" -> "text_generate"
      [] name = "generate_image" -> "image_generate"
      [] name = "deep_research" -> "research"
      [] OTHER -> "none"

\* The handler, up to its first await: the tool is chosen by name, the arguments are
\* taken apart (which throws when the request has none) and checked, and the request is
\* handed to its provider; list_models, a rejected argument and an unknown tool are
\* answered at once
CallTool ==
    /\ pc = "dispatch"
    /\ IF ~Destructures(req)
       THEN /\ outcome' =
                 Uncaught(S_CannotDestructure
                             \o (IF req.tool = "deep_research" THEN <<"q", "u", "e", "r", "y">>
                                 ELSE <<"p", "r", "o", "m", "p", "t">>)
                             \o S_OfArgsUndefined)
            /\ pc' = "done"
            /\ UNCHANGED research
       ELSE
       CASE req.tool = "list_models" ->
              /\ outcome' = ToolResult(FALSE, S_modelsJson)
              /\ pc' = "done"
              /\ UNCHANGED research
         [] req.tool = "generate_text" ->
              /\ UNCHANGED research
              /\ IF Blank(req.prompt)
                 THEN outcome' = ToolResult(TRUE, S_PromptEmpty) /\ pc' = "done"
                 ELSE IF Truthy(req.model) /\ ~isSupportedTextModel(req.model)
                 THEN /\ outcome' =
                          ToolResult(TRUE, S_UnknownTextModel \o req.model \o S_SupportedModels
                                              \o join(SUPPORTED_TEXT_MODELS, S_commaSpace))
                      /\ pc' = "done"
                 ELSE pc' = Orchestrator(req.tool) /\ UNCHANGED outcome
         [] req.tool = "generate_image" ->
              /\ UNCHANGED research
              /\ IF Blank(req.prompt)
                 THEN outcome' = ToolResult(TRUE, S_PromptEmpty) /\ pc' = "done"
                 ELSE IF Blank(req.outputPath)
                 THEN outcome' = ToolResult(TRUE, S_OutputPathRequired) /\ pc' = "done"
                 ELSE IF Truthy(req.model) /\ ~isSupportedImageModel(req.model)
                 THEN /\ outcome' =
                          ToolResult(TRUE, S_UnknownImageModel \o req.model \o S_SupportedModels
                                              \o join(SUPPORTED_IMAGE_MODELS, S_commaSpace))
                      /\ pc' = "done"
                 ELSE pc' = Orchestrator(req.tool) /\ UNCHANGED outcome
         [] req.tool = "deep_research" ->
              IF Blank(req.query)
              THEN /\ outcome' = ToolResult(TRUE, S_QueryEmpty)
                   /\ pc' = "done"
                   /\ UNCHANGED research
              ELSE /\ research' =
                        [research EXCEPT !.timeoutMs = ResearchTimeoutMs(req.timeoutMinutes)]
                   /\ pc' = Orchestrator(req.tool)
                   /\ UNCHANGED outcome
         [] OTHER ->
              /\ outcome' = ToolResult(TRUE, S_UnknownTool \o req.name \o <<"\"">>)
              /\ pc' = "done"
              /\ UNCHANGED research
    /\ UNCHANGED <<parked, req, now, retryVars, races, vendorCalls, provResult, fsReads, fsWrites,
                   contents, usageLog>>

\* error.message || "Unknown error during ..."
ErrorMessageOr(error, fallback) == IF Truthy(error.message) THEN error.message ELSE fallback

\* The handler, after its provider: the value is returned as a result, a failure is
\* caught and returned as an error result
CallToolReturn ==
    /\ pc = "provider_done"
    /\ outcome' =
          IF provResult.kind = "returned"
          THEN [ToolResult(FALSE,
                    IF req.tool = "generate_image" THEN S_ImageSavedTo \o provResult.value
                    ELSE IF req.tool = "deep_research" THEN provResult.value.text
                    ELSE provResult.value)
                  EXCEPT !.usage = IF req.tool = "deep_research" THEN NoUsage
                                   ELSE provResult.usage]
          ELSE ToolResult(TRUE, S_ErrorPrefix \o
                   ErrorMessageOr(provResult.error,
                       CASE req.tool = "generate_text" -> S_UnknownGeneration
                         [] req.tool = "generate_image" -> S_UnknownImageGeneration
                         [] OTHER -> S_UnknownResearch))
    /\ pc' = "done"
    /\ UNCHANGED <<parked, req, now, retryVars, races, vendorCalls, orchVars>>

-----------------------------------------------------------------------------
(* withRetry on its own, over an arbitrary operation and arbitrary options *)

MSG_429 == <<"4", "2", "9", " ", "T", "o", "o", " ", "M", "a", "n", "y", " ", "R", "e", "q",
    "u", "e", "s", "t", "s">>
MSG_econnreset == <<"r", "e", "a", "d", " ", "e", "c", "o", "n", "n", "r", "e", "s", "e",
    "t">>
MSG_internal == <<"I", "n", "t", "e", "r", "n", "a", "l", " ", "e", "r", "r", "o", "r">>

\* The failure messages an operation may reject with
Messages == {MSG_429, MSG_econnreset, MSG_internal, <<>>}

MaxRetriesBound == 3

\* The options a caller may pass: any subset of the keys, each from a few values
FullOptions ==
    [maxRetries : 0..MaxRetriesBound,
     initialDelayMs : {1000, 40000},
     maxDelayMs : {30000, 5000},
     backoffMultiplier : {1, 2},
     retryableErrors : {PROVIDER_RETRY_OPTIONS.retryableErrors}]

OptionKeySets ==
    {{}, {"maxRetries"}, {"maxRetries", "retryableErrors"},
     {"maxRetries", "initialDelayMs", "maxDelayMs", "backoffMultiplier"}}

CallerOptions == {[k \in K |-> f[k]] : f \in FullOptions, K \in OptionKeySets}

NoResearch == [interactionId |-> <<>>, startTime |-> 0, timeoutMs |-> 0,
               pollIntervalMs |-> 0, polls |-> 0, sentAt |-> 0, wakeAt |-> 0,
               observed |-> 0, inProgressOnly |-> TRUE,
               start |-> [ok |-> FALSE, status |-> 0, id |-> <<"undefined">>,
                          body |-> [json |-> FALSE, wrapped |-> FALSE,
                                    message |-> <<"undefined">>,
                                    reasons |-> <<<<"undefined">>>>, text |-> <<>>]],
               last |-> [status |-> <<>>, outputs |-> <<<<"undefined">>>>,
                         error |-> <<"undefined">>]]

NoOptions == [maxRetries |-> 0, initialDelayMs |-> 0, maxDelayMs |-> 0,
              backoffMultiplier |-> 0, retryableErrors |-> <<>>]

InitCommon ==
    /\ now = 0
    /\ opts = NoOptions
    /\ attempt = 0
    /\ delay = 0
    /\ lastError = NoError
    /\ wakeAt = 0
    /\ calls = 0
    /\ fnLog = <<>>
    /\ sleeps = <<>>
    /\ retryResult = Pending
    /\ races = <<>>
    /\ vendorCalls = <<>>
    /\ outcome = Pending
    /\ provResult = Pending
    /\ fsReads = <<>>
    /\ fsWrites = <<>>
    /\ contents = <<>>
    /\ usageLog = <<>>
    /\ research = NoResearch

InitRetry ==
    /\ \E o \in CallerOptions : req = [tool |-> "withRetry", options |-> o]
    /\ pc = "retry_enter"
    /\ InitCommon
    /\ parked = <<>>

NextRetry ==
    \/ withRetryEnter
    \/ RetryInvokeOperation
    \/ OperationResolves
    \/ \E m \in Messages : OperationRejects(m)
    \/ RetryWake
    \/ Tick
    \/ HarnessSettles

SpecRetry == InitRetry /\ [][NextRetry]_vars

-----------------------------------------------------------------------------
(* Two invocations in one process *)

\* The delay a resumed invocation of withRetry goes on with, in a variant whose delay
\* is one value of the module, left as the invocation that ran last set it
ResumedDelay_Shared(invocation) == delay

\* The delay a resumed invocation of withRetry goes on with: its own, `let delay` being
\* a local of the call
ResumedDelay(invocation) == invocation.delay

\* The locals of the invocation that runs, as they are kept while it is suspended
Locals ==
    [req |-> req, pc |-> pc, opts |-> opts, attempt |-> attempt, delay |-> delay,
     lastError |-> lastError, wakeAt |-> wakeAt, calls |-> calls, fnLog |-> fnLog,
     sleeps |-> sleeps, retryResult |-> retryResult, races |-> races,
     vendorCalls |-> vendorCalls, outcome |-> outcome, provResult |-> provResult,
     fsReads |-> fsReads, fsWrites |-> fsWrites, contents |-> contents,
     research |-> research]

\* Where an invocation gives the thread away: before it starts, at the await of a vendor
\* call or of a sleep, and after it has ended
SuspensionPoints ==
    {"dispatch", "retry_enter", "retry_await", "retry_sleep", "research_start_await",
     "research_poll_await", "research_sleep", "done"}

\* The invocation that runs is suspended and the other one resumes with its own locals;
\* the clock and the logger are the process's
Switch ==
    /\ parked # <<>>
    /\ pc \in SuspensionPoints
    /\ parked' = <<Locals>>
    /\ LET other == parked[1]
       IN /\ req' = other.req
          /\ pc' = other.pc
          /\ opts' = other.opts
          /\ attempt' = other.attempt
          /\ delay' = ResumedDelay(other)
          /\ lastError' = other.lastError
          /\ wakeAt' = other.wakeAt
          /\ calls' = other.calls
          /\ fnLog' = other.fnLog
          /\ sleeps' = other.sleeps
          /\ retryResult' = other.retryResult
          /\ races' = other.races
          /\ vendorCalls' = other.vendorCalls
          /\ outcome' = other.outcome
          /\ provResult' = other.provResult
          /\ fsReads' = other.fsReads
          /\ fsWrites' = other.fsWrites
          /\ contents' = other.contents
          /\ research' = other.research
    /\ UNCHANGED <<now, usageLog>>

-----------------------------------------------------------------------------
(* Properties of withRetry *)

\* Whether each message matches a retryable pattern of both pattern lists in use,
\* read off the messages: "429 ..." holds "429", "read econnreset" holds ECONNRESET in
\* lower case, the other two hold no pattern
RetryableMessages == {MSG_429, MSG_econnreset}
NonRetryableMessages == {MSG_internal, <<>>}

AlwaysFailedRetryable ==
    \A i \in 1..Len(fnLog) :
        fnLog[i].kind = "rejected" /\ fnLog[i].error.message \in RetryableMessages

\* C1: when every invocation of the operation fails with a retryable failure, withRetry
\* invokes it exactly maxRetries + 1 times (never more) and then raises the last failure.
C1_ExactlyMaxRetriesPlusOne ==
    AlwaysFailedRetryable =>
        /\ calls <= opts.maxRetries + 1 \/ pc = "retry_enter"
        /\ pc \in {"retry_done", "done"} =>
              /\ calls = opts.maxRetries + 1
              /\ Len(fnLog) = calls
              /\ retryResult = Thrown(fnLog[calls].error)
        /\ pc = "done" => outcome = retryResult

C1_Witness ==
    /\ pc = "done"
    /\ AlwaysFailedRetryable
    /\ opts.maxRetries = 2
    /\ calls = 3
    /\ outcome.kind = "thrown"

\* C2: the delays slept between attempts are non-decreasing and none exceeds maxDelayMs,
\* whatever the options.
C2_DelaysNonDecreasingAndCapped ==
    \A i \in 1..Len(sleeps) :
        /\ sleeps[i] <= opts.maxDelayMs
        /\ i > 1 => sleeps[i - 1] <= sleeps[i]

\* C3: when the operation's failure matches no retryable pattern, the operation is
\* invoked exactly once, nothing is slept, and that very failure reaches the caller.
C3_NonRetryableFailsAtOnce ==
    (/\ fnLog # <<>>
     /\ fnLog[1].kind = "rejected"
     /\ fnLog[1].error.message \in NonRetryableMessages) =>
        /\ calls = 1
        /\ fnLog[1].error.origin = <<"fn", 1>>
        /\ sleeps = <<>>
        /\ retryResult = Thrown(fnLog[1].error)
        /\ pc \in {"retry_done", "done"}
        /\ pc = "done" => outcome = Thrown(fnLog[1].error)

C3_Witness ==
    /\ pc = "done"
    /\ opts.maxRetries >= 1
    /\ calls = 1
    /\ fnLog[1].kind = "rejected"
    /\ fnLog[1].error.message = MSG_internal
    /\ outcome.kind = "thrown"

-----------------------------------------------------------------------------
(* withTimeout on its own, over an arbitrary operation *)

TimeoutChoices == {300000, 180000, 5000, 429}

InitTimeout ==
    /\ \E t \in TimeoutChoices : req = [tool |-> "withTimeout", timeoutMs |-> t]
    /\ pc = "timeout_enter"
    /\ InitCommon
    /\ parked = <<>>

NextTimeout ==
    \/ withTimeoutEnter
    \/ \E i \in 1..Len(races) : WrappedResolves(i, NoValue)
    \/ \E i \in 1..Len(races), m \in Messages : WrappedRejects(i, m)
    \/ \E i \in 1..Len(races) : TimerFires(i)
    \/ Tick

SpecTimeout == InitTimeout /\ [][NextTimeout]_vars

\* The decimal digits of each duration in use, written out
DurationDigits(ms) ==
    CASE ms = 300000 -> <<"3", "0", "0", "0", "0", "0">>
      [] ms = 180000 -> <<"1", "8", "0", "0", "0", "0">>
      [] ms = 5000 -> <<"5", "0", "0", "0">>
      [] ms = 429 -> <<"4", "2", "9">>

\* C4: while the wrapped operation has not settled, withTimeout fails exactly when its
\* timer of timeoutMs has fired, not before the duration has passed, and the failure's
\* message starts with TIMEOUT and contains the configured duration.
C4_TimeoutFailure ==
    \A i \in 1..Len(races) :
        races[i].op = "pending" =>
            /\ outcome.kind = "thrown" <=> races[i].timer = "fired"
            /\ outcome.kind # "returned"
            /\ races[i].timer = "fired" =>
                  /\ now >= races[i].start + req.timeoutMs
                  /\ startsWith(outcome.error.message, S_TIMEOUT)
                  /\ includes(outcome.error.message, DurationDigits(req.timeoutMs))

C4_Witness ==
    /\ Len(races) = 1
    /\ races[1].op = "pending"
    /\ races[1].timer = "fired"
    /\ req.timeoutMs = 300000
    /\ now = 300000
    /\ outcome.kind = "thrown"

\* C5: the first of the operation and the timer to settle decides withTimeout's outcome,
\* which never changes afterwards: neither the operation settling after a timeout (it is
\* not cancelled, and does settle) nor the timer firing after the operation settled.
C5_FirstSettlementIsFinal ==
    [][/\ \A i \in 1..Len(races) :
            /\ races[i].result # "pending" =>
                  /\ races'[i].result = races[i].result
                  /\ races'[i].error = races[i].error
            /\ (races[i].result = "pending" /\ races'[i].result # "pending") =>
                  \/ /\ races[i].op = "pending"
                     /\ races'[i].op = races'[i].result
                     /\ races'[i].error = races'[i].opError
                  \/ /\ races[i].timer = "armed"
                     /\ races'[i].timer = "fired"
                     /\ races'[i].result = "rejected"
                     /\ startsWith(races'[i].error.message, S_TIMEOUT)
       /\ outcome.kind # "pending" => outcome' = outcome]_vars

\* A timeout was delivered, and the operation, not cancelled, succeeded later
C5_Witness ==
    /\ Len(races) = 1
    /\ races[1].result = "rejected"
    /\ races[1].error.origin = <<"timer", 1>>
    /\ races[1].op = "resolved"
    /\ outcome = Thrown(races[1].error)

\* The operation settled first, and the timer, still pending, fired later
C5_WitnessTimerAfter ==
    /\ Len(races) = 1
    /\ races[1].result = "resolved"
    /\ races[1].timer = "fired"
    /\ outcome.kind = "returned"

-----------------------------------------------------------------------------
(* The server: one tool invocation, over the arguments a caller may send and the
   responses the vendor may give *)

P_hello == <<"h", "i">>
S_sys == <<"b", "e", " ", "b", "r", "i", "e", "f">>
M_gpt_4 == <<"g", "p", "t", "-", "4">>
L_max == <<"m", "a", "x">>
IMG_raw == <<"Q", "Q", "=", "=">>
IMG_dataUrl == <<"d", "a", "t", "a", ":", "i", "m", "a", "g", "e", "/", "j", "p", "e", "g",
    ";", "b", "a", "s", "e", "6", "4", ",", "Q", "Q", "=", "=">>
IMG_badDataUrl == <<"d", "a", "t", "a", ":", "Q", "Q", "=", "=">>
AR_16_9 == <<"1", "6", ":", "9">>
AR_7_5 == <<"7", ":", "5">>
OUT_png == <<"/", "o", "u", "t", "/", "i", ".", "p", "n", "g">>
OUT_existing == <<"/", "d", "/", "o", ".", "p", "n", "g">>
Q_query == <<"t", "l", "a", "+">>
T_frobnicate == <<"f", "r", "o", "b", "n", "i", "c", "a", "t", "e">>
ID_interaction == <<"v", "1", "_", "a", "b", "c">>
R_answer == <<"4", "2">>
R_thought == <<"h", "m", "m">>
R_report == <<"r", "e", "p", "o", "r", "t">>
R_more == <<"m", "o", "r", "e">>
R_backend == <<"b", "a", "c", "k", "e", "n", "d", " ", "d", "o", "w", "n">>
R_keyInvalid == <<"A", "P", "I", " ", "k", "e", "y", " ", "n", "o", "t", " ", "v", "a", "l",
    "i", "d">>
R_overloaded == <<"o", "v", "e", "r", "l", "o", "a", "d", "e", "d">>
S_queued == <<"q", "u", "e", "u", "e", "d">>
IMG_bytes == <<"i", "V", "B", "O">>
IMG_other == <<"/", "9", "j", "/">>
S_image_jpeg == <<"i", "m", "a", "g", "e", "/", "j", "p", "e", "g">>
S_fetchFailed == <<"f", "e", "t", "c", "h", " ", "f", "a", "i", "l", "e", "d">>

TextBase ==
    [tool |-> "generate_text", prompt |-> P_hello, model |-> Undefined,
     systemPrompt |-> Undefined, thinkingLevel |-> Undefined, files |-> UndefinedList]

Prompts == {P_hello, Undefined, <<>>, <<" ", "\t">>}
TextModels == {Undefined, M_gemini_3_pro, M_gemini_3_flash, M_gpt_4, <<>>}
ThinkingLevels == {Undefined, L_minimal, L_low, L_medium, L_high, L_max}
FileLists ==
    {<<>>, <<F_png>>, <<F_png, F_png2>>, <<F_pdf>>, <<F_png, F_gif, F_png2>>,
     <<F_png, F_pdf, F_gif>>, <<F_noext>>, <<F_bmp, F_png>>, <<F_png2, F_tiff, F_pdf>>,
     <<F_nogif, F_png>>}

\* The generate_text calls: each argument varied on its own, and the pairs of arguments
\* whose checks meet
TextRequests ==
    {[TextBase EXCEPT !.prompt = p, !.files = f] : p \in Prompts, f \in {UndefinedList, <<F_png>>}}
        \cup {[TextBase EXCEPT !.model = m, !.thinkingLevel = l] :
                m \in TextModels, l \in ThinkingLevels}
        \cup {[TextBase EXCEPT !.model = m, !.thinkingLevel = L_medium, !.files = <<F_png>>] :
                m \in TextModels}
        \cup {[TextBase EXCEPT !.files = f] : f \in FileLists}
        \cup {[TextBase EXCEPT !.systemPrompt = S_sys, !.files = <<F_png>>]}

ImageBase ==
    [tool |-> "generate_image", prompt |-> P_hello, outputPath |-> OUT_png,
     model |-> Undefined, referenceImages |-> UndefinedList, aspectRatio |-> Undefined]

ImageModels == {Undefined, M_nano_banana, M_nano_banana_pro, M_gpt_4, <<>>}
MaxReferenceImages == 15
ReferenceLists ==
    {UndefinedList, <<IMG_raw, IMG_dataUrl, IMG_badDataUrl>>,
     <<IMG_raw, IMG_raw, IMG_raw, IMG_raw>>, [i \in 1..MaxReferenceImages |-> IMG_raw]}
AspectRatios == {Undefined, <<>>, AR_16_9, AR_7_5}

\* The generate_image calls
ImageRequests ==
    {[ImageBase EXCEPT !.prompt = p] : p \in Prompts}
        \cup {[ImageBase EXCEPT !.outputPath = o] : o \in {Undefined, <<" ">>, OUT_existing}}
        \cup {[ImageBase EXCEPT !.model = m, !.referenceImages = r] :
                m \in ImageModels, r \in ReferenceLists}
        \cup {[ImageBase EXCEPT !.aspectRatio = a, !.referenceImages = r] :
                a \in AspectRatios,
                r \in {UndefinedList, <<IMG_raw, IMG_raw, IMG_raw, IMG_raw>>}}

\* The deep_research calls
ResearchRequests ==
    [tool : {"deep_research"}, query : {Q_query, Undefined, <<" ">>},
     timeoutMinutes : {NoNumber, Num(1)}]

OtherRequests ==
    {[tool |-> "list_models"], [tool |-> "frobnicate", name |-> T_frobnicate]}

\* The calls made without arguments: every argument is undefined
NoArgumentsRequests ==
    {[tool |-> "generate_text", arguments |-> Undefined, prompt |-> Undefined,
      model |-> Undefined, systemPrompt |-> Undefined, thinkingLevel |-> Undefined,
      files |-> UndefinedList],
     [tool |-> "generate_image", arguments |-> Undefined, prompt |-> Undefined,
      outputPath |-> Undefined, model |-> Undefined, referenceImages |-> UndefinedList,
      aspectRatio |-> Undefined],
     [tool |-> "deep_research", arguments |-> Undefined, query |-> Undefined,
      timeoutMinutes |-> NoNumber]}

\* What generateContent may resolve with
TextResponses ==
    {Response(R_answer, <<>>),
     WithUsage(Response(R_answer,
                        <<<<ResponseText(R_thought, TRUE), ResponseText(R_answer, FALSE)>>>>),
               UsageMetadata(Num(10), Num(5), Num(20), Num(5))),
     WithUsage(Response(Undefined,
                        <<<<ResponseText(R_thought, TRUE), ResponseText(R_answer, FALSE),
                            ResponseText(<<>>, FALSE), ResponseText(R_more, TRUE),
                            ResponseText(R_more, FALSE)>>>>),
               UsageMetadata(Num(10), NoNumber, Num(0), NoNumber)),
     WithUsage(Response(Undefined,
                        <<<<ResponseText(R_answer, FALSE), ResponseText(R_more, FALSE)>>>>),
               UsageMetadata(NoNumber, NoNumber, NoNumber, NoNumber)),
     Response(<<>>, <<<<ResponseText(R_thought, TRUE)>>>>)}
ImageResponses ==
    {Response(Undefined, <<>>),
     Response(R_answer, <<<<ResponseText(R_answer, FALSE)>>>>),
     WithUsage(Response(Undefined,
                        <<<<ResponseText(R_answer, FALSE), InlineData(<<>>, IMG_bytes),
                            InlineData(S_image_jpeg, IMG_other)>>,
                          <<InlineData(S_image_jpeg, IMG_other)>>>>),
               UsageMetadata(Num(10), NoNumber, Num(0), Num(5))),
     Response(Undefined,
              <<<<ResponseText(R_answer, FALSE)>>, <<>>,
                <<ResponseText(R_more, FALSE), InlineData(S_image_jpeg, IMG_other),
                  InlineData(S_image_png, IMG_bytes)>>>>)}
Responses == IF req.tool = "generate_text" THEN TextResponses ELSE ImageResponses

\* What generateContent may reject with
VendorMessages == {MSG_429, MSG_internal}

\* What the start request may be answered with
StartResponses ==
    {StartResponse(TRUE, 200, ID_interaction, TextBody(<<>>)),
     StartResponse(TRUE, 200, Undefined, TextBody(<<>>)),
     StartResponse(FALSE, 400, Undefined, JsonBody(TRUE, R_keyInvalid, <<S_API_KEY_INVALID>>)),
     StartResponse(FALSE, 403, Undefined, JsonBody(FALSE, Undefined, UndefinedList)),
     StartResponse(FALSE, 429, Undefined, JsonBody(FALSE, R_overloaded, UndefinedList)),
     StartResponse(FALSE, 503, Undefined, TextBody(R_backend)),
     StartResponse(FALSE, 500, Undefined, TextBody(<<>>)),
     StartResponse(FALSE, 429, Undefined,
                   JsonBody(FALSE, R_keyInvalid, <<S_queued, S_API_KEY_INVALID>>)),
     StartResponse(FALSE, 401, Undefined, TextBody(S_API_KEY_INVALID)),
     StartResponse(FALSE, 400, Undefined, JsonBody(TRUE, R_overloaded, <<S_queued>>)),
     StartResponse(TRUE, 200, <<>>, TextBody(<<>>))}

\* What a status request may be answered with
PollResponses ==
    {PollResponse(TRUE, 200, <<>>, S_in_progress, UndefinedList, Undefined),
     PollResponse(TRUE, 200, <<>>, S_queued, UndefinedList, Undefined),
     PollResponse(TRUE, 200, <<>>, Undefined, UndefinedList, Undefined),
     PollResponse(TRUE, 200, <<>>, S_completed, <<R_report, Undefined, <<>>, R_more>>,
                  Undefined),
     PollResponse(TRUE, 200, <<>>, S_completed, <<<<>>>>, Undefined),
     PollResponse(TRUE, 200, <<>>, S_completed, <<Undefined, <<>>>>, Undefined),
     PollResponse(TRUE, 200, <<>>, S_completed, <<>>, Undefined),
     PollResponse(TRUE, 200, <<>>, S_completed, UndefinedList, Undefined),
     PollResponse(TRUE, 200, <<>>, S_failed, UndefinedList, R_backend),
     PollResponse(TRUE, 200, <<>>, S_failed, UndefinedList, Undefined),
     PollResponse(FALSE, 503, R_backend, <<>>, UndefinedList, Undefined),
     PollResponse(FALSE, 401, S_API_KEY_INVALID, <<>>, UndefinedList, Undefined),
     PollResponse(FALSE, 429, R_overloaded, <<>>, UndefinedList, Undefined)}

Init ==
    /\ \/ \E r \in TextRequests : req = r
       \/ \E r \in ImageRequests : req = r
       \/ \E r \in ResearchRequests : req = r
       \/ \E r \in OtherRequests : req = r
       \/ \E r \in NoArgumentsRequests : req = r
    /\ pc = "dispatch"
    /\ InitCommon
    /\ parked = <<>>

Next ==
    \/ CallTool
    \/ TextGenerate
    \/ ImageGenerate
    \/ withRetryEnter
    \/ RetryInvokeWrapped
    \/ \E i \in 1..Len(races), v \in Responses : WrappedResolves(i, v)
    \/ \E i \in 1..Len(races), m \in VendorMessages : WrappedRejects(i, m)
    \/ \E i \in 1..Len(races) : TimerFires(i)
    \/ RetryWake
    \/ TextAfterCall
    \/ ImageAfterCall
    \/ ResearchBegin
    \/ \E r \in StartResponses : StartResponds(r)
    \/ ResearchPoll
    \/ \E r \in PollResponses : PollResponds(r)
    \/ ResearchWake
    \/ FetchRejects(S_fetchFailed)
    \/ CallToolReturn
    \/ Tick

Spec == Init /\ [][Next]_vars

\* An invocation whose request has arrived and whose handler has not started
NewInvocation(request) ==
    [req |-> request, pc |-> "dispatch", opts |-> NoOptions, attempt |-> 0, delay |-> 0,
     lastError |-> NoError, wakeAt |-> 0, calls |-> 0, fnLog |-> <<>>, sleeps |-> <<>>,
     retryResult |-> Pending, races |-> <<>>, vendorCalls |-> <<>>, outcome |-> Pending,
     provResult |-> Pending, fsReads |-> <<>>, fsWrites |-> <<>>, contents |-> <<>>,
     research |-> NoResearch]

\* The pairs of requests served together: two calls of withRetry with options of their
\* own, a text call with an attachment and a text call with a system prompt, a text
\* call and a research call, two research calls
Q_other == <<"z", "3">>
ConcurrentRequests ==
    {<<[tool |-> "withRetry", options |-> [maxRetries |-> 2]],
       [tool |-> "withRetry",
        options |-> [maxRetries |-> 1, initialDelayMs |-> 1000, maxDelayMs |-> 5000,
                     backoffMultiplier |-> 1]]>>,
     <<[TextBase EXCEPT !.files = <<F_png>>], [TextBase EXCEPT !.systemPrompt = S_sys]>>,
     <<[TextBase EXCEPT !.files = <<F_png>>],
       [tool |-> "deep_research", query |-> Q_query, timeoutMinutes |-> Num(1)]>>,
     <<[tool |-> "deep_research", query |-> Q_other, timeoutMinutes |-> Num(1)],
       [tool |-> "deep_research", query |-> Q_query, timeoutMinutes |-> Num(1)]>>}

\* What the vendor may answer while two invocations are served: a response or a
\* failure to a generation, an identifier to a start request (never the same one
\* twice), a status or a report to a status request
ID_second == <<"v", "1", "_", "x", "y", "z">>
ConcurrentResponses ==
    {WithUsage(Response(Undefined,
                        <<<<ResponseText(R_thought, TRUE), ResponseText(R_answer, FALSE)>>>>),
               UsageMetadata(Num(10), Num(5), Num(20), Num(5)))}
ConcurrentMessages == {MSG_internal}
ConcurrentStartResponses ==
    {StartResponse(TRUE, 200, id, TextBody(<<>>)) :
        id \in {ID_interaction, ID_second}
                 \ {parked[k].research.interactionId : k \in 1..Len(parked)}}
ConcurrentPollResponses ==
    {PollResponse(TRUE, 200, <<>>, S_in_progress, UndefinedList, Undefined),
     PollResponse(TRUE, 200, <<>>, S_completed, <<R_report>>, Undefined)}

InitConcurrent ==
    /\ \E p \in ConcurrentRequests :
          /\ req = p[1]
          /\ pc = IF p[1].tool = "withRetry" THEN "retry_enter" ELSE "dispatch"
          /\ parked = <<[NewInvocation(p[2]) EXCEPT
                            !.pc = IF p[2].tool = "withRetry" THEN "retry_enter" ELSE @]>>
    /\ InitCommon

NextConcurrent ==
    \/ CallTool
    \/ TextGenerate
    \/ withRetryEnter
    \/ RetryInvokeOperation
    \/ OperationResolves
    \/ \E m \in {MSG_429, MSG_internal} : OperationRejects(m)
    \/ HarnessSettles
    \/ RetryInvokeWrapped
    \/ \E i \in 1..Len(races), v \in ConcurrentResponses : WrappedResolves(i, v)
    \/ \E i \in 1..Len(races), m \in ConcurrentMessages : WrappedRejects(i, m)
    \/ \E i \in 1..Len(races) : TimerFires(i)
    \/ RetryWake
    \/ TextAfterCall
    \/ ResearchBegin
    \/ \E r \in ConcurrentStartResponses : StartResponds(r)
    \/ ResearchPoll
    \/ \E r \in ConcurrentPollResponses : PollResponds(r)
    \/ ResearchWake
    \/ CallToolReturn
    \/ Tick
    \/ Switch

SpecConcurrent == InitConcurrent /\ [][NextConcurrent]_vars

-----------------------------------------------------------------------------
(* Properties of a tool invocation *)

\* The timeout configured for each provider, in milliseconds
ConfiguredTimeout == IF req.tool = "generate_text" THEN 300000 ELSE 180000

\* C6: in text and image generation every attempt of the retry loop sends a vendor call
\* of its own, raced against a timer of its own that is due the full configured timeout
\* (300000 ms for text, 180000 ms for image) after that attempt started, however much
\* time the earlier attempts and the backoff sleeps took; no timer fires any earlier.
C6_FreshTimeoutPerAttempt ==
    req.tool \in {"generate_text", "generate_image"} =>
        /\ Len(races) = calls
        /\ Len(vendorCalls) = calls
        /\ \A i \in 1..Len(races) :
              /\ vendorCalls[i].attempt = i
              /\ vendorCalls[i].race = i
              /\ races[i].timeoutMs = ConfiguredTimeout
              /\ races[i].deadline = races[i].start + ConfiguredTimeout
              /\ races[i].timer = "fired" => now >= races[i].start + ConfiguredTimeout
              /\ races[i].error.origin = <<"timer", i>> => races[i].timer = "fired"
              /\ i > 1 => races[i].start >= races[i - 1].start + sleeps[i - 1]

\* The third attempt of an image generation, begun after two backoff sleeps, timed out
\* a full 180000 ms after it began
C6_Witness ==
    /\ req.tool = "generate_image"
    /\ Len(races) = 3
    /\ races[3].start > races[1].start
    /\ races[3].result = "rejected"
    /\ races[3].error.origin = <<"timer", 3>>
    /\ now = races[3].start + 180000

\* C7: every vendor call of the three providers (generateContent of text and of image,
\* the start request and the status requests of research) runs in a withTimeout race,
\* within an attempt of withRetry.
C7_EveryVendorCallWrapped ==
    \A i \in 1..Len(vendorCalls) :
        /\ vendorCalls[i].attempt >= 1
        /\ vendorCalls[i].race \in 1..Len(races)

\* The levels each model is specified to support
ExpectedLevels ==
    [m \in {M_gemini_3_pro, M_gemini_3_flash} |->
        IF m = M_gemini_3_pro THEN {L_low, L_high} ELSE {L_minimal, L_low, L_medium, L_high}]

AllLevels == {L_minimal, L_low, L_medium, L_high}

\* The model and the level generate works with: gemini-3-pro and high when not given
GivenModel == IF req.model = Undefined THEN M_gemini_3_pro ELSE req.model
GivenLevel == IF req.thinkingLevel = Undefined THEN L_high ELSE req.thinkingLevel

\* generate has been invoked and has run its checks
TextGenerateRan ==
    /\ req.tool = "generate_text"
    /\ pc \notin {"dispatch", "text_generate"}
    /\ ~(pc = "done" /\ provResult.kind = "pending")

\* C8: validateThinkingLevel(model, level) returns no error exactly when the level is
\* one the model supports, for both models and all four levels; so (gemini-3-pro,
\* medium) is rejected and (gemini-3-flash, medium) accepted. Where generate applied it
\* to a request, the request was rejected by it exactly in those cases.
C8_ValidateThinkingLevel ==
    /\ \A m \in DOMAIN ExpectedLevels, l \in AllLevels :
          (validateThinkingLevel(m, l) = Undefined) <=> (l \in ExpectedLevels[m])
    /\ validateThinkingLevel(M_gemini_3_pro, L_medium) # Undefined
    /\ validateThinkingLevel(M_gemini_3_flash, L_medium) = Undefined
    /\ (TextGenerateRan /\ GivenModel \in DOMAIN ExpectedLevels /\ GivenLevel \in AllLevels) =>
          ((provResult.kind = "thrown" /\ provResult.error.origin = <<"generate", 0>>
                /\ includes(provResult.error.message, S_onlySupports))
              <=> (GivenLevel \notin ExpectedLevels[GivenModel]))

\* generate applied it to (gemini-3-pro, medium) and rejected the request
C8_Witness ==
    /\ TextGenerateRan
    /\ req.model = M_gemini_3_pro
    /\ req.thinkingLevel = L_medium
    /\ provResult.kind = "thrown"
    /\ includes(provResult.error.message, L_medium)

\* generate applied it to (gemini-3-flash, medium) and went on to the vendor call
C8_WitnessAccepted ==
    /\ TextGenerateRan
    /\ req.model = M_gemini_3_flash
    /\ req.thinkingLevel = L_medium
    /\ Len(vendorCalls) = 1

\* C9: text generation called with a level (high when none is given) that the model
\* (gemini-3-pro when none is given) does not support fails with a message that starts
\* with VALIDATION_ERROR, having read no attachment and sent no vendor call.
C9_UnsupportedLevelRejected ==
    (/\ TextGenerateRan
     /\ GivenModel \in DOMAIN ExpectedLevels
     /\ GivenLevel \notin ExpectedLevels[GivenModel]) =>
        /\ provResult.kind = "thrown"
        /\ startsWith(provResult.error.message, S_VALIDATION_ERROR)
        /\ fsReads = <<>>
        /\ vendorCalls = <<>>
        /\ calls = 0
        /\ races = <<>>
        /\ pc \in {"provider_done", "done"}
        /\ pc = "done" => outcome.isError /\ includes(outcome.text, S_VALIDATION_ERROR)

\* A request with an attachment on disk and a level gemini-3-pro lacks was rejected
C9_Witness ==
    /\ pc = "done"
    /\ req.tool = "generate_text"
    /\ req.model = Undefined
    /\ req.thinkingLevel = L_medium
    /\ req.files = <<F_png>>
    /\ outcome.isError
    /\ fsReads = <<>>

\* A string that is missing, empty or white space only
IsBlank(s) == s = Undefined \/ \A i \in 1..Len(s) : s[i] \in {" ", "\t", "\n", "\r"}

\* The files of the requests that are not on disk, and those whose extension the table
\* of MIME types lacks
MissingFiles == {F_pdf, F_nogif}
UnsupportedFiles == {F_gif, F_noext, F_bmp, F_tiff}

\* The cap on reference images of the model an image request selects
ExpectedCap == IF req.model = M_nano_banana_pro THEN 14 ELSE 3

\* A pre-flight check of the request fails: a blank prompt, output path or query, a
\* model name that is not a supported one, a level the model lacks, an attachment that
\* is missing or of an unsupported type, too many reference images for the model, an
\* aspect ratio outside the fixed set
PreflightFails ==
    \/ /\ req.tool = "generate_text"
       /\ \/ IsBlank(req.prompt)
          \/ req.model = M_gpt_4
          \/ /\ GivenModel \in DOMAIN ExpectedLevels
             /\ GivenLevel \notin ExpectedLevels[GivenModel]
          \/ /\ req.files # UndefinedList
             /\ \E i \in 1..Len(req.files) : req.files[i] \in MissingFiles \cup UnsupportedFiles
    \/ /\ req.tool = "generate_image"
       /\ \/ IsBlank(req.prompt)
          \/ IsBlank(req.outputPath)
          \/ req.model = M_gpt_4
          \/ /\ req.model \in {Undefined, M_nano_banana, M_nano_banana_pro}
             /\ req.referenceImages # UndefinedList
             /\ Len(req.referenceImages) > ExpectedCap
          \/ req.aspectRatio = AR_7_5
    \/ /\ req.tool = "deep_research"
       /\ IsBlank(req.query)

C10_WitnessReferenceImages ==
    /\ pc = "done"
    /\ req.tool = "generate_image"
    /\ req.model = M_nano_banana
    /\ req.referenceImages # UndefinedList
    /\ Len(req.referenceImages) = 4
    /\ outcome.isError
    /\ vendorCalls = <<>>

\* The closed taxonomy of failure categories
S_API_ERROR == <<"A", "P", "I", "_", "E", "R", "R", "O", "R">>
ErrorCategories ==
    {S_AUTH_ERROR, S_RATE_LIMIT, S_SAFETY_BLOCK, S_CONTENT_BLOCKED, S_TIMEOUT,
     S_VALIDATION_ERROR, S_API_ERROR, S_GENERATION_ERROR,
     <<"R", "E", "S", "E", "A", "R", "C", "H", "_", "F", "A", "I", "L", "E", "D">>}

\* A message that begins with a category token and a colon
Tagged(message) == \E c \in ErrorCategories : startsWith(message, c \o <<":">>)

\* The text of an error result without the handler's "Error: " prefix
ErrorText ==
    IF startsWith(outcome.text, S_ErrorPrefix)
    THEN SubSeq(outcome.text, Len(S_ErrorPrefix) + 1, Len(outcome.text))
    ELSE outcome.text

\* C11: every error result of the handler, for generate_text, generate_image,
\* deep_research and an unknown tool, on every failure path and the pre-flight
\* rejections among them, carries a message that begins with a token of the closed
\* taxonomy followed by a colon (the handler's own "Error: " prefix set aside).
C11_ErrorResultsTagged ==
    (pc = "done" /\ outcome.isError) => Tagged(ErrorText)

\* generate of the image provider has been invoked and has run its checks
ImageGenerateRan ==
    /\ req.tool = "generate_image"
    /\ pc \notin {"dispatch", "image_generate"}
    /\ ~(pc = "done" /\ provResult.kind = "pending")

\* An attachment of the request is missing or of an unsupported type, the level being
\* one the model supports
AttachmentFails ==
    /\ GivenModel \in DOMAIN ExpectedLevels
    /\ GivenLevel \in ExpectedLevels[GivenModel]
    /\ req.files # UndefinedList
    /\ \E i \in 1..Len(req.files) : req.files[i] \in MissingFiles \cup UnsupportedFiles

\* The request has more reference images than its model allows, or an aspect ratio
\* outside the fixed set
ImagePreflightFails ==
    \/ /\ req.model \in {Undefined, M_nano_banana, M_nano_banana_pro}
       /\ req.referenceImages # UndefinedList
       /\ Len(req.referenceImages) > ExpectedCap
    \/ req.aspectRatio = AR_7_5

\* C12: the failures of the attachment and image pre-flight checks (a missing
\* attachment, an attachment whose extension the table lacks, more reference images
\* than the model's cap, an aspect ratio outside the fixed set) carry a message tagged
\* VALIDATION_ERROR.
C12_PreflightFailuresAreValidationErrors ==
    ((TextGenerateRan /\ AttachmentFails) \/ (ImageGenerateRan /\ ImagePreflightFails)) =>
        /\ provResult.kind = "thrown"
        /\ startsWith(provResult.error.message, S_VALIDATION_ERROR \o <<":">>)

\* The attachments of a request, none when not given
GivenFiles == IF req.files = UndefinedList THEN <<>> ELSE req.files

\* The positions of the attachments that are missing or of an unsupported type
FailingPositions ==
    {i \in 1..Len(GivenFiles) : GivenFiles[i] \in MissingFiles \cup UnsupportedFiles}

\* The position of the first of them, or one past the last attachment when none fails
FirstFailing ==
    IF FailingPositions = {} THEN Len(GivenFiles) + 1
    ELSE CHOOSE i \in FailingPositions : \A j \in FailingPositions : i <= j

\* generate has resolved the attachments of a request whose level the model supports
FilesResolved ==
    /\ TextGenerateRan
    /\ GivenModel \in DOMAIN ExpectedLevels
    /\ GivenLevel \in ExpectedLevels[GivenModel]

\* C13: attachment resolution accepts a path only if the file exists and its
\* lower-cased extension is in the table of MIME types (.png is image/png; .gif, .bmp
\* and .tiff are not in it); existence is tested before the extension is looked up and
\* before any byte is read, and the first failing attachment in list order ends the
\* request, so that exactly the attachments before it were read and none after it.
C13_AttachmentResolution ==
    /\ MimeTypeOf(<<".", "p", "n", "g">>) = S_image_png
    /\ MimeTypeOf(<<".", "g", "i", "f">>) = Undefined
    /\ MimeTypeOf(<<".", "b", "m", "p">>) = Undefined
    /\ MimeTypeOf(<<".", "t", "i", "f", "f">>) = Undefined
    /\ FilesResolved =>
          /\ fsReads = SubSeq(GivenFiles, 1, FirstFailing - 1)
          /\ FailingPositions # {} =>
                /\ provResult.kind = "thrown"
                /\ vendorCalls = <<>>
                /\ Len(contents) = FirstFailing - 1
                /\ IF GivenFiles[FirstFailing] \in MissingFiles
                   THEN provResult.error.message = S_FileNotFound \o GivenFiles[FirstFailing]
                   ELSE startsWith(provResult.error.message, S_UnsupportedFileType)
          /\ FailingPositions = {} =>
                /\ Len(contents) = Len(GivenFiles) + 1
                /\ \A i \in 1..Len(GivenFiles) :
                      /\ contents[i].kind = "inlineData"
                      /\ contents[i].data = GivenFiles[i]
                      /\ GivenFiles[i] \in {F_png, F_png2} => contents[i].mimeType = S_image_png

\* The second of three attachments is a .tiff file on disk and the third is missing:
\* the first was read, the request failed on the type of the second, the third was
\* never looked at
C13_Witness ==
    /\ pc = "done"
    /\ req.tool = "generate_text"
    /\ req.files = <<F_png2, F_tiff, F_pdf>>
    /\ fsReads = <<F_png2>>
    /\ outcome.isError
    /\ includes(outcome.text, S_UnsupportedFileType)

\* A missing .gif file is reported as missing, not as an unsupported type
C13_WitnessMissingFirst ==
    /\ pc = "done"
    /\ req.tool = "generate_text"
    /\ req.files = <<F_nogif, F_png>>
    /\ fsReads = <<>>
    /\ includes(outcome.text, S_FileNotFound)

\* An upper-case .PNG file is accepted as image/png
C13_WitnessAccepted ==
    /\ req.tool = "generate_text"
    /\ req.files = <<F_png, F_png2>>
    /\ Len(vendorCalls) = 1
    /\ fsReads = <<F_png, F_png2>>
    /\ contents[1].mimeType = S_image_png

\* The text element a request must end with: the prompt, after the system block when a
\* system prompt is supplied
ExpectedTextElement ==
    IF req.systemPrompt = Undefined THEN req.prompt
    ELSE <<"<", "s", "y", "s", "t", "e", "m", ">", "\n">> \o req.systemPrompt
            \o <<"\n", "<", "/", "s", "y", "s", "t", "e", "m", ">", "\n", "\n">> \o req.prompt

\* C14: in every vendor call of text generation the content sequence is one inline-data
\* element per attachment, in the order of the request's file list, followed by exactly
\* one text element, the last, that holds the prompt (after the system block when a
\* system prompt is supplied); every retry attempt sends the same sequence.
C14_TextContentsOrder ==
    \A i \in 1..Len(vendorCalls) :
        vendorCalls[i].by = "generate_text" =>
            LET c == vendorCalls[i].contents
            IN /\ Len(c) = Len(GivenFiles) + 1
               /\ \A j \in 1..Len(GivenFiles) :
                     /\ c[j].kind = "inlineData"
                     /\ c[j].data = GivenFiles[j]
               /\ c[Len(c)].kind = "text"
               /\ c[Len(c)].data = ExpectedTextElement
               /\ c = vendorCalls[1].contents

\* Two attachments and three attempts: the third call carries both attachments in order
\* and then the prompt
C14_Witness ==
    /\ req.tool = "generate_text"
    /\ req.files = <<F_png, F_png2>>
    /\ Len(vendorCalls) = 3
    /\ Len(vendorCalls[3].contents) = 3
    /\ vendorCalls[3].contents[1].data = F_png
    /\ vendorCalls[3].contents[2].data = F_png2
    /\ vendorCalls[3].contents[3].data = P_hello

\* A system prompt and an attachment: the retried call ends with the system block and
\* the prompt
C14_WitnessSystemPrompt ==
    /\ req.tool = "generate_text"
    /\ req.systemPrompt = S_sys
    /\ Len(vendorCalls) = 2
    /\ Len(vendorCalls[2].contents) = 2
    /\ includes(vendorCalls[2].contents[2].data, S_sys)
    /\ vendorCalls[2].contents[2].data # P_hello

\* The fixed set of aspect ratios
AllowedAspectRatios ==
    {<<"1", ":", "1">>, <<"2", ":", "3">>, <<"3", ":", "2">>, <<"3", ":", "4">>,
     <<"4", ":", "3">>, <<"4", ":", "5">>, <<"5", ":", "4">>, <<"9", ":", "1", "6">>,
     <<"1", "6", ":", "9">>, <<"2", "1", ":", "9">>}

\* The cap on reference images of a request: 3 for nano-banana (the model when none is
\* given), 14 for nano-banana-pro, and no more than the larger of the two for any other
\* name
RequestCap ==
    IF req.model \in {Undefined, M_nano_banana} THEN 3 ELSE 14

\* The number of inline-data elements of a content sequence
InlineCount(c) == Cardinality({j \in 1..Len(c) : c[j].kind = "inlineData"})

\* A content sequence of an image call: reference images, then the prompt, at most cap
\* reference images
ImageCallWellFormed(call, cap) ==
    LET c == call.contents
    IN /\ Len(c) >= 1
       /\ c[Len(c)].kind = "text"
       /\ c[Len(c)].data = req.prompt
       /\ \A j \in 1..(Len(c) - 1) : c[j].kind = "inlineData"
       /\ InlineCount(c) <= cap
       /\ call.aspectRatio = Undefined \/ call.aspectRatio \in AllowedAspectRatios

\* C15: every vendor call of image generation carries at most MAX_REFERENCE_IMAGES[model]
\* reference images (3 for nano-banana, 14 for nano-banana-pro), placed before the
\* prompt, and an aspect ratio that is absent or one of the fixed set.
C15_ImageCallWithinCaps ==
    \A i \in 1..Len(vendorCalls) :
        vendorCalls[i].by = "generate_image" => ImageCallWellFormed(vendorCalls[i], RequestCap)

\* The same for the requests that name a supported model or none
C15_SupportedModelsWithinCaps ==
    \A i \in 1..Len(vendorCalls) :
        (vendorCalls[i].by = "generate_image"
            /\ req.model \in {Undefined, M_nano_banana, M_nano_banana_pro}) =>
                ImageCallWellFormed(vendorCalls[i], RequestCap)

\* The fragments of all candidates of a response, in order
RECURSIVE Fragments(_)
Fragments(candidates) ==
    IF candidates = <<>> THEN <<>> ELSE Head(candidates) \o Fragments(Tail(candidates))

IsInline(part) == part.kind = "inlineData"

\* The inline-image fragments of the response withRetry returned, none when it failed
InlineFragments ==
    IF retryResult.kind = "returned"
    THEN SelectSeq(Fragments(retryResult.value.candidates), IsInline)
    ELSE <<>>

\* The writes to the file system that are writes of a file
IsFileWrite(w) == w.op = "write"
FileWrites == SelectSeq(fsWrites, IsFileWrite)

\* C16: in image generation the payload written to the destination path is the first
\* inline-image fragment of the response, scanning candidates in order and the fragments
\* of each in order; a response of which no fragment carries inline image data makes the
\* call fail with GENERATION_ERROR; and an invocation that fails at pre-flight, by a
\* vendor failure, by a timeout or for want of image data writes nothing and creates no
\* directory. No failing invocation writes the destination path.
C16_ImagePayloadAndNoWriteOnFailure ==
    req.tool = "generate_image" =>
        /\ InlineFragments = <<>> => fsWrites = <<>>
        /\ pc \notin {"provider_done", "done"} => fsWrites = <<>>
        /\ (pc \in {"provider_done", "done"} /\ retryResult.kind = "returned"
                /\ InlineFragments = <<>>) =>
              /\ provResult.kind = "thrown"
              /\ startsWith(provResult.error.message, S_GENERATION_ERROR \o <<":">>)
        /\ provResult.kind = "thrown" => FileWrites = <<>>
        /\ provResult.kind = "returned" =>
              /\ InlineFragments # <<>>
              /\ FileWrites =
                    <<[op |-> "write", path |-> req.outputPath,
                       data |-> InlineFragments[1].data]>>
              /\ fsWrites[Len(fsWrites)].op = "write"
        /\ (pc = "done" /\ outcome.isError /\ InlineFragments = <<>>) => fsWrites = <<>>

\* The image is the second fragment of the first candidate, before another image: it
\* was written, after the missing directory was made
C16_Witness ==
    /\ pc = "done"
    /\ req.tool = "generate_image"
    /\ ~outcome.isError
    /\ Len(InlineFragments) = 3
    /\ fsWrites = <<[op |-> "mkdir", path |-> <<"/", "o", "u", "t">>, data |-> <<>>],
                    [op |-> "write", path |-> OUT_png, data |-> IMG_bytes]>>

\* The first two candidates hold no image: the first image of the third was written
C16_WitnessLaterCandidate ==
    /\ pc = "done"
    /\ req.tool = "generate_image"
    /\ ~outcome.isError
    /\ Len(InlineFragments) = 2
    /\ FileWrites = <<[op |-> "write", path |-> OUT_png, data |-> IMG_other]>>

\* A response without an image: GENERATION_ERROR, nothing written
C16_WitnessNoImage ==
    /\ pc = "done"
    /\ req.tool = "generate_image"
    /\ retryResult.kind = "returned"
    /\ InlineFragments = <<>>
    /\ outcome.isError
    /\ includes(outcome.text, S_GENERATION_ERROR \o S_colonSpace \o S_NoImageData)
    /\ fsWrites = <<>>

\* The third attempt timed out: TIMEOUT, nothing written
C16_WitnessTimeout ==
    /\ pc = "done"
    /\ req.tool = "generate_image"
    /\ Len(races) = 3
    /\ races[3].timer = "fired"
    /\ outcome.isError
    /\ includes(outcome.text, S_TIMEOUT)
    /\ fsWrites = <<>>

\* The fragments of a response's outputs that have text
HasText(t) == t # Undefined /\ t # <<>>
NonEmptyFragments(outputs) ==
    IF outputs = UndefinedList THEN <<>> ELSE SelectSeq(outputs, HasText)

\* Fragments joined by a blank line
RECURSIVE JoinedByBlankLine(_)
JoinedByBlankLine(fragments) ==
    IF fragments = <<>> THEN <<>>
    ELSE IF Len(fragments) = 1 THEN fragments[1]
    ELSE fragments[1] \o <<"\n", "\n">> \o JoinedByBlankLine(Tail(fragments))

\* The status requests sent
IsPoll(call) == call.request = "poll"
PollsSent == Len(SelectSeq(vendorCalls, IsPoll))

C17_WitnessAtOnce ==
    /\ pc = "done"
    /\ req.tool = "deep_research"
    /\ research.observed = 1
    /\ PollsSent = 1
    /\ research.last.status = S_completed
    /\ ~outcome.isError

\* The time research has taken, and its budget
ResearchElapsed == now - research.startTime

\* The failure of the provider is a TIMEOUT that names the interaction
TimedOutWithId ==
    /\ provResult.kind = "thrown"
    /\ startsWith(provResult.error.message, S_TIMEOUT)
    /\ includes(provResult.error.message, research.interactionId)

\* C18: when the time elapsed since the start of a research call exceeds its budget
\* before completed or failed has been read, the call fails with a message that starts
\* with TIMEOUT and contains the interaction id the start request returned.
C18_TimeoutWhenBudgetExceeded ==
    (/\ req.tool = "deep_research"
     /\ pc = "provider_done"
     /\ Truthy(research.interactionId)
     /\ ResearchElapsed > research.timeoutMs) => TimedOutWithId

\* What the loop does: past the budget at the head of a turn, before a status request
\* is sent, the TIMEOUT failure is thrown, and it is thrown nowhere else
C18_TimeoutAtLoopHead ==
    [][(pc = "research_poll" /\ pc' # "research_poll") =>
            IF ResearchElapsed > research.timeoutMs
            THEN pc' = "provider_done" /\ TimedOutWithId' /\ vendorCalls' = vendorCalls
            ELSE pc' = "research_poll_await"]_vars

\* The budget of one minute ran out during the sleeps and the call timed out
C18_WitnessTimeout ==
    /\ pc = "done"
    /\ req.tool = "deep_research"
    /\ research.timeoutMs = 60000
    /\ research.observed = 7
    /\ outcome.isError
    /\ startsWith(ErrorText, S_TIMEOUT)
    /\ includes(outcome.text, ID_interaction)

\* C19: a status request answered completed with no output fragments, or with fragments
\* that all lack text or have empty text, makes research fail with API_ERROR; and a
\* research call that succeeds never has empty text.
C19_CompletedWithoutOutputFails ==
    req.tool = "deep_research" =>
        /\ (research.last.status = S_completed
                /\ NonEmptyFragments(research.last.outputs) = <<>>) =>
              /\ provResult.kind = "thrown"
              /\ startsWith(provResult.error.message, S_API_ERROR \o <<":">>)
              /\ pc = "done" => outcome.isError /\ startsWith(ErrorText, S_API_ERROR \o <<":">>)
        /\ provResult.kind = "returned" =>
              /\ provResult.value.text # <<>>
              /\ provResult.value.text # Undefined
        /\ (pc = "done" /\ ~outcome.isError) => Len(outcome.text) > 0

\* in_progress, then completed with two fragments, one without text and one empty: the
\* call failed with API_ERROR
C19_Witness ==
    /\ pc = "done"
    /\ req.tool = "deep_research"
    /\ research.observed = 2
    /\ research.last.status = S_completed
    /\ research.last.outputs = <<Undefined, <<>>>>
    /\ outcome.isError
    /\ startsWith(ErrorText, S_API_ERROR)

\* completed without outputs at all
C19_WitnessAbsent ==
    /\ pc = "done"
    /\ req.tool = "deep_research"
    /\ research.last.status = S_completed
    /\ research.last.outputs = UndefinedList
    /\ outcome.isError
    /\ startsWith(ErrorText, S_API_ERROR)

\* The message of a failed research: the tag, then the vendor's failure message, or a
\* fixed text when the vendor gave none
ExpectedFailedMessage ==
    <<"R", "E", "S", "E", "A", "R", "C", "H", "_", "F", "A", "I", "L", "E", "D", ":", " ">>
        \o (IF research.last.error \in {Undefined, <<>>}
            THEN <<"R", "e", "s", "e", "a", "r", "c", "h", " ", "f", "a", "i", "l", "e", "d",
                   " ", "w", "i", "t", "h", " ", "u", "n", "k", "n", "o", "w", "n", " ", "e",
                   "r", "r", "o", "r">>
            ELSE research.last.error)

\* C20: a status request answered failed makes research fail with a message tagged
\* RESEARCH_FAILED that carries the vendor's failure message, or a fixed text when the
\* vendor gave none; no success is returned once failed has been read.
C20_FailedIsResearchFailed ==
    (req.tool = "deep_research" /\ research.last.status = S_failed) =>
        /\ provResult.kind = "thrown"
        /\ provResult.error.message = ExpectedFailedMessage
        /\ pc \in {"provider_done", "done"}
        /\ PollsSent = research.observed
        /\ pc = "done" => outcome.isError /\ ErrorText = ExpectedFailedMessage

\* Two statuses short of terminal, then failed with the vendor's message
C20_Witness ==
    /\ pc = "done"
    /\ req.tool = "deep_research"
    /\ research.observed = 3
    /\ research.last.status = S_failed
    /\ research.last.error = R_backend
    /\ outcome.isError
    /\ includes(outcome.text, S_RESEARCH_FAILED \o R_backend)

\* failed without a message: the fixed text
C20_WitnessFallback ==
    /\ pc = "done"
    /\ req.tool = "deep_research"
    /\ research.last.status = S_failed
    /\ research.last.error = Undefined
    /\ outcome.isError
    /\ includes(outcome.text, S_ResearchFailedUnknown)

\* The error body of a start response carries the reason code API_KEY_INVALID
HasKeyInvalidReason(r) ==
    /\ r.body.json
    /\ r.body.reasons # UndefinedList
    /\ \E i \in 1..Len(r.body.reasons) :
          r.body.reasons[i] = <<"A", "P", "I", "_", "K", "E", "Y", "_", "I", "N", "V", "A",
                                "L", "I", "D">>

\* The category a start response must be classified as, none for a response that
\* starts the research
ExpectedStartCategory(r) ==
    IF r.ok
    THEN IF r.id \in {Undefined, <<>>} THEN S_API_ERROR ELSE <<>>
    ELSE IF HasKeyInvalidReason(r) THEN S_AUTH_ERROR
    ELSE IF r.status \in {401, 403} THEN S_AUTH_ERROR
    ELSE IF r.status = 429 THEN S_RATE_LIMIT
    ELSE S_API_ERROR

\* The start request has been answered
StartAnswered == req.tool = "deep_research" /\ research.start.status # 0

\* C21: a start response that is not OK and whose error body carries the reason code
\* API_KEY_INVALID is classified AUTH_ERROR whatever its HTTP status; without the reason
\* code, status 401 or 403 gives AUTH_ERROR, 429 gives RATE_LIMIT and any other status
\* API_ERROR; an OK response without an identifier gives API_ERROR.
C21_StartClassification ==
    /\ \A r \in StartResponses :
          ~r.ok => startsWith(StartFailure(r), ExpectedStartCategory(r) \o <<":", " ">>)
    /\ StartAnswered =>
          IF ExpectedStartCategory(research.start) = <<>>
          THEN provResult.error.origin[1] # "startResearch"
          ELSE /\ provResult.kind = "thrown"
               /\ provResult.error.origin[1] = "startResearch"
               /\ startsWith(provResult.error.message,
                             ExpectedStartCategory(research.start) \o <<":", " ">>)
               /\ pc \in {"provider_done", "done"}
               /\ pc = "done" =>
                     /\ outcome.isError
                     /\ startsWith(ErrorText,
                                   ExpectedStartCategory(research.start) \o <<":", " ">>)

\* Status 429 with the reason code in the error body: AUTH_ERROR
C21_Witness ==
    /\ pc = "done"
    /\ StartAnswered
    /\ research.start.status = 429
    /\ HasKeyInvalidReason(research.start)
    /\ outcome.isError
    /\ startsWith(ErrorText, S_AUTH_ERROR)

\* Status 429 without the reason code: RATE_LIMIT
C21_WitnessRateLimit ==
    /\ pc = "done"
    /\ StartAnswered
    /\ research.start.status = 429
    /\ ~HasKeyInvalidReason(research.start)
    /\ startsWith(ErrorText, S_RATE_LIMIT)

\* An OK response without an identifier: API_ERROR
C21_WitnessNoIdentifier ==
    /\ pc = "done"
    /\ StartAnswered
    /\ research.start.ok
    /\ research.start.id = Undefined
    /\ outcome.isError
    /\ startsWith(ErrorText, S_API_ERROR)

\* The requests of a research invocation so far: nothing, or one start request and then
\* status requests only, each naming the interaction the start request returned
ResearchProtocol ==
    req.tool = "deep_research" =>
        /\ \A i \in 1..Len(vendorCalls) :
              /\ vendorCalls[i].by = "deep_research"
              /\ vendorCalls[i].request = (IF i = 1 THEN "start" ELSE "poll")
              /\ i > 1 =>
                    /\ research.start.ok
                    /\ research.start.id \notin {Undefined, <<>>}
                    /\ vendorCalls[i].id = research.start.id
        /\ (StartAnswered /\ ExpectedStartCategory(research.start) # <<>>) =>
              Len(vendorCalls) = 1
        /\ provResult.kind # "pending" => Len(vendorCalls) >= 1

\* C22: in every research invocation the requests sent to the vendor are exactly one
\* start request followed by zero or more status requests; every status request names
\* the identifier that start request returned; none is sent when the start fails; and
\* once the provider has returned or failed, a TIMEOUT included, nothing more is sent:
\* no cancel request and no other request.
C22_ResearchProtocol ==
    /\ []ResearchProtocol
    /\ [][(req.tool = "deep_research" /\ provResult.kind # "pending") =>
              vendorCalls' = vendorCalls]_vars

\* A budget of one minute: the start request, seven status requests, TIMEOUT, and
\* nothing after it
C22_Witness ==
    /\ pc = "done"
    /\ req.tool = "deep_research"
    /\ Len(vendorCalls) = 8
    /\ vendorCalls[8].request = "poll"
    /\ vendorCalls[8].id = ID_interaction
    /\ outcome.isError
    /\ startsWith(ErrorText, S_TIMEOUT)

\* The start request failed: it is the only request
C22_WitnessStartFailed ==
    /\ pc = "done"
    /\ req.tool = "deep_research"
    /\ research.start.status = 503
    /\ Len(vendorCalls) = 1
    /\ vendorCalls[1].request = "start"

\* A status request has been answered completed or failed
TerminalObserved ==
    /\ req.tool = "deep_research"
    /\ research.last.status \in {S_completed, S_failed}

\* The provider's result after a terminal status: for completed the text or the
\* API_ERROR for want of text, for failed the RESEARCH_FAILED failure; never TIMEOUT
TerminalOutcome ==
    /\ provResult.kind # "pending"
    /\ pc \in {"provider_done", "done"}
    /\ provResult.kind = "thrown" => ~startsWith(provResult.error.message, S_TIMEOUT)
    /\ research.last.status = S_completed =>
          (provResult.kind = "thrown" => startsWith(provResult.error.message, S_API_ERROR))
    /\ research.last.status = S_failed =>
          /\ provResult.kind = "thrown"
          /\ startsWith(provResult.error.message, S_RESEARCH_FAILED)
    /\ pc = "done" =>
          /\ outcome.isError <=> provResult.kind = "thrown"
          /\ outcome.isError => ErrorText = provResult.error.message
          /\ ~outcome.isError => outcome.text = provResult.value.text

\* C23: once a status request has been answered completed or failed, the research
\* invocation ends with that outcome: no further status request is sent, no further
\* sleep is taken, and the outcome does not change to the other terminal status or to
\* TIMEOUT.
C23_TerminalStatusEndsResearch ==
    /\ [](TerminalObserved => TerminalOutcome)
    /\ [][TerminalObserved =>
              /\ vendorCalls' = vendorCalls
              /\ research' = research
              /\ provResult' = provResult
              /\ pc' \in {"provider_done", "done"}]_vars

\* failed was read at the sixth status request of a one-minute budget, after 50
\* seconds: the invocation ended RESEARCH_FAILED with six status requests sent
C23_Witness ==
    /\ pc = "done"
    /\ TerminalObserved
    /\ research.last.status = S_failed
    /\ research.timeoutMs = 60000
    /\ research.observed = 6
    /\ PollsSent = 6
    /\ outcome.isError
    /\ startsWith(ErrorText, S_RESEARCH_FAILED)

\* completed was read after the budget had run out, and the invocation succeeded
C23_WitnessLate ==
    /\ pc = "done"
    /\ TerminalObserved
    /\ research.last.status = S_completed
    /\ ResearchElapsed > research.timeoutMs
    /\ ~outcome.isError

\* C24: every tool invocation ends in exactly one returned result, a success result or
\* an error result with isError set; no failure (of validation, of the vendor, a
\* timeout, of file input or output) leaves the handler as an uncaught exception.
C24_EveryInvocationReturnsAResult ==
    /\ [](pc = "done" => outcome.kind = "result" /\ outcome.isError \in BOOLEAN)
    /\ [](pc # "done" => outcome = Pending)
    /\ [][pc = "done" => outcome' = outcome]_vars

\* The same for the invocations that come with arguments
C24_WithArgumentsReturnsAResult ==
    HasArguments(req) =>
        /\ pc = "done" => outcome.kind = "result" /\ outcome.isError \in BOOLEAN
        /\ pc # "done" => outcome = Pending
        /\ (pc = "done" /\ provResult.kind = "thrown") =>
              /\ outcome.isError
              /\ includes(outcome.text, provResult.error.message)

\* An orchestrator was invoked and has returned or thrown
OrchestratorEnded ==
    /\ req.tool \in {"generate_text", "generate_image", "deep_research"}
    /\ provResult.kind \in {"returned", "thrown"}

\* The one usage record of an ended invocation: success on return, failure with the
\* thrown message otherwise
OneUsageRecord ==
    /\ Len(usageLog) = 1
    /\ usageLog[1].operation = req.tool
    /\ usageLog[1].success = (provResult.kind = "returned")
    /\ provResult.kind = "thrown" => usageLog[1].error = provResult.error.message

\* C25: every text, image and research invocation that returns or fails has logged
\* exactly one usage record, success true on return and success false with the tagged
\* error on failure, the invocations rejected by pre-flight validation included.
C25_UsageLoggedOnEveryPath ==
    /\ OrchestratorEnded => OneUsageRecord
    /\ ~OrchestratorEnded => usageLog = <<>>

\* The invocation was ended by the catch block of a text or image orchestrator, or
\* returned from its try block
EndedWithinTry ==
    /\ OrchestratorEnded
    /\ req.tool # "deep_research"
    /\ provResult.kind = "thrown" => provResult.error.origin = <<"generate", 1>>

\* What the orchestrators do: a text or image invocation that got as far as its try
\* block logs exactly one record; one rejected before it, and every research
\* invocation, logs none
C25_UsageLoggedWithinTry ==
    /\ EndedWithinTry => OneUsageRecord
    /\ ~EndedWithinTry => usageLog = <<>>

\* The text of the k-th fragment of the response's content that carries text, and
\* whether it is marked as a thought
Marked(fragments, thought) ==
    SelectSeq(fragments, LAMBDA f : f.kind = "text" /\ f.data # Undefined /\ f.data # <<>>
                                        /\ f.thought = thought)

RECURSIVE Accumulated(_, _)
Accumulated(fragments, separator) ==
    IF fragments = <<>> THEN <<>>
    ELSE Head(fragments).data \o separator \o Accumulated(Tail(fragments), separator)

ReasoningDelimiter == <<"\n", "\n", "-", "-", "-", "\n">> \o
    <<"*", "*", "T", "h", "i", "n", "k", "i", "n", "g", " ", "S", "u", "m", "m", "a", "r",
      "y", ":", "*", "*", "\n">>

\* The response a text call returned from, and the text of its result
TextReturned ==
    /\ req.tool = "generate_text"
    /\ provResult.kind = "returned"
DirectText == retryResult.value.text
ContentFragments ==
    IF Len(retryResult.value.candidates) > 0 THEN retryResult.value.candidates[1] ELSE <<>>
AnswerBuffer == Accumulated(Marked(ContentFragments, FALSE), <<>>)
ReasoningBuffer == Accumulated(Marked(ContentFragments, TRUE), <<"\n">>)

\* C26: when the response exposes non-empty direct text the result text is exactly that
\* text, with no reasoning section; otherwise the text fragments of the response are
\* accumulated in order, the ones marked as thoughts into the reasoning buffer and the
\* others into the answer buffer, and the result text is the answer followed by the
\* delimited reasoning section if and only if the reasoning buffer is not empty.
C26_TextDemux ==
    TextReturned =>
        IF DirectText # Undefined /\ DirectText # <<>>
        THEN /\ provResult.value = DirectText
             /\ ~includes(provResult.value, ReasoningDelimiter)
        ELSE /\ ReasoningBuffer # <<>> =>
                  provResult.value = AnswerBuffer \o ReasoningDelimiter \o ReasoningBuffer
             /\ ReasoningBuffer = <<>> => provResult.value = AnswerBuffer
             /\ includes(provResult.value, ReasoningDelimiter) <=> ReasoningBuffer # <<>>

\* Two thoughts and two answers, interleaved, come back as the answers, the delimiter,
\* and the thoughts
C26_Witness ==
    /\ TextReturned
    /\ DirectText = Undefined
    /\ Len(Marked(ContentFragments, TRUE)) = 2
    /\ Len(Marked(ContentFragments, FALSE)) = 2
    /\ provResult.value = R_answer \o R_more \o ReasoningDelimiter
                             \o R_thought \o <<"\n">> \o R_more \o <<"\n">>

\* Direct text wins over the fragments, thoughts included
C26_WitnessDirect ==
    /\ TextReturned
    /\ DirectText = R_answer
    /\ Marked(ContentFragments, TRUE) # <<>>
    /\ provResult.value = R_answer

\* Fragments without a thought give the answer alone
C26_WitnessNoThought ==
    /\ TextReturned
    /\ DirectText = Undefined
    /\ provResult.value = R_answer \o R_more

\* Empty direct text sends the result to the fragments
C26_WitnessEmptyDirect ==
    /\ TextReturned
    /\ DirectText = <<>>
    /\ provResult.value = ReasoningDelimiter \o R_thought \o <<"\n">>

\* An image call returned, and the usage metadata of the response a text or image call
\* returned from
ImageReturned ==
    /\ req.tool = "generate_image"
    /\ provResult.kind = "returned"
VendorUsage == retryResult.value.usageMetadata

\* The counters of a usage object and the vendor's counters they correspond to
CounterOf ==
    [promptTokens |-> "promptTokenCount", completionTokens |-> "candidatesTokenCount",
     totalTokens |-> "totalTokenCount", thoughtsTokens |-> "thoughtsTokenCount"]

\* The usage object holds the vendor's counters and nothing else: a counter is absent
\* exactly when the vendor's is, and has the vendor's value otherwise
SameCounters(usage) ==
    /\ usage.present <=> VendorUsage.present
    /\ usage.present =>
          \A c \in DOMAIN usage \ {"present"} :
             /\ c \in DOMAIN CounterOf
             /\ usage[c].present <=> VendorUsage[CounterOf[c]].present
             /\ usage[c].present => usage[c].value = VendorUsage[CounterOf[c]].value

\* C27: a text or image result has a usage object if and only if the vendor response
\* carried usage metadata, and each counter in it equals the vendor's corresponding
\* counter: absent counters stay absent, none is defaulted to 0.
C27_UsageNeverFabricated ==
    /\ (TextReturned \/ ImageReturned) =>
          /\ SameCounters(provResult.usage)
          /\ pc = "done" => outcome.usage = provResult.usage
    /\ (TextReturned /\ provResult.usage.present) =>
          DOMAIN provResult.usage \ {"present"} = DOMAIN CounterOf
    /\ (ImageReturned /\ provResult.usage.present) =>
          DOMAIN provResult.usage \ {"present"} = DOMAIN CounterOf \ {"thoughtsTokens"}

\* A text result whose vendor sent the prompt counter, a total of 0, and nothing else
C27_Witness ==
    /\ TextReturned
    /\ pc = "done"
    /\ VendorUsage.present
    /\ provResult.usage.promptTokens = Num(10)
    /\ provResult.usage.totalTokens = Num(0)
    /\ ~provResult.usage.completionTokens.present
    /\ ~provResult.usage.thoughtsTokens.present

\* A text result without usage, the vendor having sent none
C27_WitnessAbsent ==
    /\ TextReturned
    /\ ~VendorUsage.present
    /\ ~provResult.usage.present

\* A text result with a usage object without counters, the vendor having sent an empty
\* object
C27_WitnessEmpty ==
    /\ TextReturned
    /\ VendorUsage.present
    /\ provResult.usage.present
    /\ \A c \in DOMAIN CounterOf : ~provResult.usage[c].present

\* Image results with and without usage
C27_WitnessImage ==
    /\ ImageReturned
    /\ provResult.usage.present
    /\ provResult.usage.promptTokens = Num(10)
    /\ ~provResult.usage.completionTokens.present
C27_WitnessImageAbsent ==
    /\ ImageReturned
    /\ ~provResult.usage.present

OrchestratedTools == {"generate_text", "generate_image", "deep_research"}

\* The positions within the code of each orchestrator, and within the code the text and
\* image orchestrators share
TextPositions == {"text_generate"}
ImagePositions == {"image_generate"}
ResearchPositions ==
    {"research", "research_start_await", "research_poll", "research_poll_await",
     "research_sleep"}
SharedPositions ==
    {"retry_enter", "retry_loop", "retry_await", "retry_sleep", "retry_done",
     "timeout_enter", "timeout_await"}

\* Nothing an orchestrator does has happened
NoOrchestratorRan ==
    /\ provResult.kind = "pending"
    /\ vendorCalls = <<>>
    /\ fsReads = <<>>
    /\ fsWrites = <<>>
    /\ contents = <<>>
    /\ usageLog = <<>>
    /\ research = NoResearch

\* Where the invocation is agrees with its tool name
DelegatedByName ==
    /\ pc \in TextPositions => req.tool = "generate_text"
    /\ pc \in ImagePositions => req.tool = "generate_image"
    /\ pc \in ResearchPositions => req.tool = "deep_research"
    /\ pc \in SharedPositions => req.tool \in {"generate_text", "generate_image"}
    /\ pc = "provider_done" => req.tool \in OrchestratedTools
    /\ \A i \in 1..Len(vendorCalls) :
          vendorCalls[i].request = "generateContent" <=> req.tool # "deep_research"
    /\ \A i \in 1..Len(usageLog) : usageLog[i].operation = req.tool
    /\ req.tool # "generate_image" => fsWrites = <<>>
    /\ req.tool # "generate_text" => fsReads = <<>>
    /\ req.tool \notin OrchestratedTools => NoOrchestratorRan

\* C28: each tool call is delegated to at most one orchestrator, chosen by the tool name
\* alone: generate_text to text, generate_image to image, deep_research to research,
\* list_models to none; a call with an unknown tool name invokes no orchestrator and
\* returns an error result.
C28_DelegationByToolName ==
    /\ [](DelegatedByName
            /\ ((pc = "done" /\ req.tool \notin OrchestratedTools \cup {"list_models"}) =>
                   /\ outcome.kind = "result"
                   /\ outcome.isError
                   /\ includes(outcome.text, req.name)))
    /\ [][/\ pc = "dispatch" =>
                pc' \in {"done", Orchestrator(req.tool)} \ {"none"}
          /\ pc \in TextPositions \cup ImagePositions =>
                pc' \in SharedPositions \cup {"provider_done"}
          /\ pc \in ResearchPositions => pc' \in ResearchPositions \cup {"provider_done"}
          /\ pc \in {"provider_done", "done"} => pc' \in {pc, "done"}]_vars

\* A text call is with the text orchestrator, an image call with the image orchestrator,
\* a research call with the research orchestrator
C28_Witness ==
    /\ req.tool = "generate_text"
    /\ pc = "text_generate"
C28_WitnessImage ==
    /\ req.tool = "generate_image"
    /\ pc = "image_generate"
C28_WitnessResearch ==
    /\ req.tool = "deep_research"
    /\ pc = "research"

\* An unknown tool is answered with an error result, list_models with a result, and no
\* orchestrator has run
C28_WitnessUnknown ==
    /\ req.tool = "frobnicate"
    /\ pc = "done"
    /\ outcome.isError
    /\ NoOrchestratorRan
C28_WitnessListModels ==
    /\ req.tool = "list_models"
    /\ pc = "done"
    /\ ~outcome.isError
    /\ NoOrchestratorRan

\* The research orchestrator has been handed its budget
BudgetHandedOver ==
    /\ req.tool = "deep_research"
    /\ pc \in ResearchPositions \cup {"provider_done"}

\* C29: for every value of timeout_minutes a caller supplies, the budget handed to the
\* poll loop lies within 5 and 60 minutes, and it is 30 minutes when timeout_minutes is
\* omitted.
C29_BudgetWithinBounds ==
    BudgetHandedOver =>
        /\ research.timeoutMs >= 5 * 60 * 1000
        /\ research.timeoutMs <= 60 * 60 * 1000
        /\ ~req.timeoutMinutes.present => research.timeoutMs = 30 * 60 * 1000

\* What the handler does: the budget is the number of minutes supplied, as it is, and
\* 30 minutes when none is supplied
C29_BudgetAsSupplied ==
    BudgetHandedOver =>
        /\ req.timeoutMinutes.present =>
              research.timeoutMs = req.timeoutMinutes.value * 60 * 1000
        /\ ~req.timeoutMinutes.present => research.timeoutMs = 30 * 60 * 1000

\* The two invocations served together: the one that runs and the suspended one
Invocations == <<Locals>> \o parked

\* What one invocation of withRetry, alone, does with the options it was given: the
\* options are the caller's merged into the defaults, every attempt is one call of the
\* operation, the delays slept start at initialDelayMs and grow by the multiplier up to
\* maxDelayMs, and the call settles as its own last attempt did
RetriesAsAlone(v) ==
    (v.req.tool \in {"withRetry", "generate_text"}
       /\ v.pc \notin {"dispatch", "text_generate", "retry_enter"}) =>
        /\ v.opts = MergeOptions(IF v.req.tool = "withRetry" THEN v.req.options
                                 ELSE PROVIDER_RETRY_OPTIONS)
        /\ v.calls = Len(v.fnLog) + (IF v.pc = "retry_await" THEN 1 ELSE 0)
        /\ v.calls <= v.opts.maxRetries + 1
        /\ Len(v.sleeps) = v.attempt - (IF v.pc = "retry_sleep" THEN 0 ELSE 1)
        /\ \A i \in 1..Len(v.sleeps) :
              v.sleeps[i] = IF i = 1 THEN v.opts.initialDelayMs
                            ELSE Min(v.sleeps[i - 1] * v.opts.backoffMultiplier,
                                     v.opts.maxDelayMs)
        /\ v.retryResult.kind = "returned" => v.fnLog[Len(v.fnLog)].kind = "resolved"
        /\ v.retryResult.kind = "thrown" =>
              v.retryResult.error = v.fnLog[Len(v.fnLog)].error

\* What one text invocation, alone, sends: in every attempt its own attachments in
\* order and then its own prompt, after its own system prompt if it has one
ContentsAsAlone(v) ==
    v.req.tool = "generate_text" =>
        \A i \in 1..Len(v.vendorCalls) :
            LET c == v.vendorCalls[i].contents
                files == IF v.req.files = UndefinedList THEN <<>> ELSE v.req.files
            IN /\ v.vendorCalls[i].attempt = i
               /\ Len(c) = Len(files) + 1
               /\ \A j \in 1..Len(files) : c[j].data = files[j]
               /\ c[Len(c)].data =
                     IF v.req.systemPrompt = Undefined THEN v.req.prompt
                     ELSE <<"<", "s", "y", "s", "t", "e", "m", ">", "\n">>
                             \o v.req.systemPrompt
                             \o <<"\n", "<", "/", "s", "y", "s", "t", "e", "m", ">", "\n",
                                  "\n">> \o v.req.prompt

\* What one research invocation, alone, does: one start request, then status requests
\* for the identifier its own start request returned, within its own budget
ResearchAsAlone(v) ==
    v.req.tool = "deep_research" =>
        /\ \A i \in 1..Len(v.vendorCalls) :
              /\ v.vendorCalls[i].request = (IF i = 1 THEN "start" ELSE "poll")
              /\ i > 1 => v.vendorCalls[i].id = v.research.start.id
        /\ v.research.interactionId \in {<<>>, v.research.start.id}
        /\ v.pc \notin {"dispatch", "done"} =>
              v.research.timeoutMs = v.req.timeoutMinutes.value * 60 * 1000
        /\ (v.provResult.kind = "thrown"
              /\ startsWith(v.provResult.error.message, S_TIMEOUT)) =>
                 now - v.research.startTime > v.research.timeoutMs

\* The timers of one invocation run from the start of its own attempts, and none fires
\* before its time
TimersAsAlone(v) ==
    \A i \in 1..Len(v.races) :
        /\ v.races[i].deadline = v.races[i].start + TEXT_DEFAULT_TIMEOUT_MS
        /\ v.races[i].timer = "fired" => now >= v.races[i].deadline
        /\ i > 1 => v.races[i].start >= v.races[i - 1].start + v.sleeps[i - 1]

\* The result of one invocation is the one its own provider, or its own withRetry, gave
ResultAsAlone(v) ==
    v.pc = "done" =>
        IF v.req.tool = "withRetry" THEN v.outcome = v.retryResult
        ELSE /\ v.outcome.kind = "result"
             /\ v.outcome.isError <=> v.provResult.kind = "thrown"
             /\ v.provResult.kind = "returned" =>
                   v.outcome.text = IF v.req.tool = "deep_research"
                                    THEN v.provResult.value.text
                                    ELSE v.provResult.value
             /\ v.provResult.kind = "thrown" =>
                   includes(v.outcome.text, v.provResult.error.message)
             /\ (v.req.tool = "generate_text" /\ v.provResult.kind = "returned") =>
                   v.provResult.value = TextDemux(v.retryResult.value)

\* No task identifier is shared
IdentifiersApart ==
    \A i, j \in 1..Len(Invocations) :
        (i # j /\ Invocations[i].research.interactionId # <<>>) =>
            Invocations[i].research.interactionId # Invocations[j].research.interactionId

\* C30: when two invocations are interleaved at their suspension points, each one's
\* result, attempt count, backoff delays and timeout decisions are those it has when it
\* runs alone, and no retry counter, delay, content sequence or task identifier is
\* shared: a step of one invocation leaves the other as it was, and an invocation
\* resumes with the locals it was suspended with.
C30_ConcurrentInvocationsIndependent ==
    /\ [](\A k \in 1..Len(Invocations) :
             /\ RetriesAsAlone(Invocations[k])
             /\ ContentsAsAlone(Invocations[k])
             /\ ResearchAsAlone(Invocations[k])
             /\ TimersAsAlone(Invocations[k])
             /\ ResultAsAlone(Invocations[k]))
    /\ []IdentifiersApart
    /\ [][IF parked' = parked THEN TRUE
          ELSE parked' = <<Locals>> /\ Locals' = parked[1]]_vars

\* Two calls of withRetry have slept between their attempts, in turn, each its own
\* delays
C30_Witness ==
    /\ req.tool = "withRetry"
    /\ parked[1].req.tool = "withRetry"
    /\ pc = "done"
    /\ parked[1].pc = "done"
    /\ {sleeps, parked[1].sleeps} = {<<1000, 2000>>, <<1000>>}
    /\ \E i \in 1..Len(fnLog) : fnLog[i].kind = "rejected"

\* Two text calls have been sent while the other was in flight, each with its own
\* content sequence
C30_WitnessContents ==
    /\ parked # <<>>
    /\ req.tool = "generate_text"
    /\ parked[1].req.tool = "generate_text"
    /\ pc = "done"
    /\ parked[1].pc = "done"
    /\ Len(vendorCalls[1].contents) = 2
    /\ Len(parked[1].vendorCalls[1].contents) = 1
    /\ vendorCalls[1].contents[2].data # parked[1].vendorCalls[1].contents[1].data

\* Two research calls poll, in turn, each its own interaction
C30_WitnessResearch ==
    /\ parked # <<>>
    /\ req.tool = "deep_research"
    /\ parked[1].req.tool = "deep_research"
    /\ Len(vendorCalls) >= 3
    /\ Len(parked[1].vendorCalls) >= 3
    /\ vendorCalls[3].id = ID_second
    /\ parked[1].vendorCalls[3].id = ID_interaction
    /\ pc = "done"
    /\ provResult.kind = "returned"
    /\ parked[1].provResult.kind = "thrown"

-----------------------------------------------------------------------------
(* types.ts: categorizeError, and categorizeError on its own over arbitrary failures *)

S_unauthorized == <<"u", "n", "a", "u", "t", "h", "o", "r", "i", "z", "e", "d">>
S_SAFETY == <<"S", "A", "F", "E", "T", "Y">>
S_content_policy == <<"c", "o", "n", "t", "e", "n", "t", " ", "p", "o", "l", "i", "c", "y">>
S_timed_out == <<"t", "i", "m", "e", "d", " ", "o", "u", "t">>
S_McpAuthMessage == <<"I", "n", "v", "a", "l", "i", "d", " ", "o", "r", " ", "m", "i", "s",
    "s", "i", "n", "g", " ", "G", "e", "m", "i", "n", "i", " ", "A", "P", "I", " ", "k", "e",
    "y">>
S_McpRateMessage == <<"G", "e", "m", "i", "n", "i", " ", "A", "P", "I", " ", "r", "a", "t",
    "e", " ", "l", "i", "m", "i", "t", " ", "o", "r", " ", "q", "u", "o", "t", "a", " ", "e",
    "x", "c", "e", "e", "d", "e", "d", ".", " ", "P", "l", "e", "a", "s", "e", " ", "w", "a",
    "i", "t", " ", "a", "n", "d", " ", "r", "e", "t", "r", "y", ".">>
S_McpSafetyMessage == <<"C", "o", "n", "t", "e", "n", "t", " ", "w", "a", "s", " ", "b", "l",
    "o", "c", "k", "e", "d", " ", "b", "y", " ", "G", "e", "m", "i", "n", "i", " ", "s", "a",
    "f", "e", "t", "y", " ", "f", "i", "l", "t", "e", "r", "s">>
S_McpBlockedMessage == <<"R", "e", "q", "u", "e", "s", "t", " ", "b", "l", "o", "c", "k",
    "e", "d", " ", "d", "u", "e", " ", "t", "o", " ", "c", "o", "n", "t", "e", "n", "t", " ",
    "p", "o", "l", "i", "c", "y">>
S_server_error == <<"s", "e", "r", "v", "e", "r", " ", "e", "r", "r", "o", "r">>
S_429_TooMany == <<"4", "2", "9", " ", "T", "o", "o", " ", "M", "a", "n", "y", " ", "R", "e",
    "q", "u", "e", "s", "t", "s">>
S_gemini == <<"g", "e", "m", "i", "n", "i">>

\* new MCPError(category, message, provider, statusCode): the message of the Error is
\* `${category}: ${message}`
MCPError(category, message, provider, statusCode) ==
    [name |-> "MCPError", category |-> category, message |-> category \o S_colonSpace \o message,
     provider |-> provider, statusCode |-> statusCode]

\* A value that was thrown: an Error with a message and, possibly, a status or a status
\* code; a string; undefined
ThrownError(message, status, statusCode) ==
    [kind |-> "Error", message |-> message, status |-> status, statusCode |-> statusCode]
ThrownString(text) ==
    [kind |-> "string", message |-> text, status |-> NoNumber, statusCode |-> NoNumber]
ThrownUndefined ==
    [kind |-> "undefined", message |-> <<>>, status |-> NoNumber, statusCode |-> NoNumber]

\* error instanceof Error ? error.message : String(error)
MessageOf(error) ==
    CASE error.kind = "Error" -> error.message
      [] error.kind = "string" -> error.message
      [] OTHER -> Undefined

\* (error as any)?.status || (error as any)?.statusCode
StatusOf(error) ==
    IF error.kind # "Error" THEN NoNumber
    ELSE IF error.status.present /\ error.status.value # 0 THEN error.status
    ELSE error.statusCode

\* A variant that looks for a rate limit before it looks for a bad key
categorizeError_RateFirst(error, provider) ==
    LET message == MessageOf(error)
        status == StatusOf(error)
    IN IF status = Num(429) \/ includes(message, S_rate) \/ includes(message, S_quota)
       THEN MCPError(S_RATE_LIMIT, S_McpRateMessage, provider, status)
       ELSE IF status = Num(401) \/ includes(message, S_API_key)
                 \/ includes(message, S_unauthorized)
       THEN MCPError(S_AUTH_ERROR, S_McpAuthMessage, provider, status)
       ELSE MCPError(S_API_ERROR, message, provider, status)

\* categorizeError: the first rule that matches decides
categorizeError(error, provider) ==
    LET message == MessageOf(error)
        status == StatusOf(error)
    IN IF status = Num(401) \/ includes(message, S_API_key)
            \/ includes(message, S_unauthorized)
       THEN MCPError(S_AUTH_ERROR, S_McpAuthMessage, provider, status)
       ELSE IF status = Num(429) \/ includes(message, S_rate) \/ includes(message, S_quota)
       THEN MCPError(S_RATE_LIMIT, S_McpRateMessage, provider, status)
       ELSE IF includes(message, S_safety) \/ includes(message, S_SAFETY)
       THEN MCPError(S_SAFETY_BLOCK, S_McpSafetyMessage, provider, status)
       ELSE IF includes(message, S_blocked) \/ includes(message, S_content_policy)
       THEN MCPError(S_CONTENT_BLOCKED, S_McpBlockedMessage, provider, status)
       ELSE IF includes(message, S_TIMEOUT) \/ includes(message, S_timed_out)
       THEN MCPError(S_TIMEOUT, message, provider, NoNumber)
       ELSE MCPError(S_API_ERROR, message, provider, status)

\* A caller's catch block hands the failure to categorizeError
categorizeErrorCall ==
    /\ pc = "categorize"
    /\ req.tool = "categorizeError"
    /\ outcome' = Returned(categorizeError(req.error, S_gemini))
    /\ pc' = "done"
    /\ UNCHANGED <<parked, req, now, retryVars, races, vendorCalls, orchVars>>

\* The phrases a failure's message is made of, and the rule each one answers to: 1 bad
\* key, 2 rate limit, 3 safety, 4 blocked, 5 timeout, 6 none
Phrases ==
    <<S_API_key, S_unauthorized, S_rate, S_quota, S_safety, S_SAFETY, S_blocked,
      S_content_policy, S_TIMEOUT, S_timed_out, S_server_error, S_429_TooMany, S_API_KEY,
      <<>>>>
RuleOfPhrase == <<1, 1, 2, 2, 3, 3, 4, 4, 5, 5, 6, 6, 6, 6>>

\* The failures categorizeError is given: Errors whose message is two phrases, with or
\* without a status or a status code, the same messages thrown as strings, undefined
Statuses == {NoNumber, Num(401), Num(429), Num(500)}
ThrownValues ==
    {[error |-> ThrownError(Phrases[i] \o <<" ">> \o Phrases[j], s, NoNumber),
      phrases |-> {i, j}] : i, j \in 1..Len(Phrases), s \in Statuses}
      \cup {[error |-> ThrownError(Phrases[i], NoNumber, c), phrases |-> {i}] :
              i \in 1..Len(Phrases), c \in Statuses}
      \cup {[error |-> ThrownError(Phrases[i], Num(0), Num(429)), phrases |-> {i}] :
              i \in 1..Len(Phrases)}
      \cup {[error |-> ThrownString(Phrases[i]), phrases |-> {i}] : i \in 1..Len(Phrases)}
      \cup {[error |-> ThrownUndefined, phrases |-> {}]}

InitCategorize ==
    /\ \E t \in ThrownValues :
          req = [tool |-> "categorizeError", error |-> t.error, phrases |-> t.phrases]
    /\ pc = "categorize"
    /\ InitCommon
    /\ parked = <<>>

NextCategorize == categorizeErrorCall

SpecCategorize == InitCategorize /\ [][NextCategorize]_vars

\* The categories, in the order of the rules
RuleCategories ==
    <<S_AUTH_ERROR, S_RATE_LIMIT, S_SAFETY_BLOCK, S_CONTENT_BLOCKED, S_TIMEOUT, S_API_ERROR>>

\* The status the failure carries: its status, or else its status code
CarriedStatus ==
    IF req.error.kind # "Error" THEN 0
    ELSE IF req.error.status.present /\ req.error.status.value # 0
    THEN req.error.status.value
    ELSE IF req.error.statusCode.present THEN req.error.statusCode.value ELSE 0

\* The rules the failure matches, read off the phrases it was made of and its status
MatchingRules ==
    {RuleOfPhrase[i] : i \in req.phrases}
        \cup (IF CarriedStatus = 401 THEN {1} ELSE {})
        \cup (IF CarriedStatus = 429 THEN {2} ELSE {})
        \cup {6}
EarliestRule == CHOOSE r \in MatchingRules : \A q \in MatchingRules : r <= q

\* C31: categorizeError is total and first-match: for every failure it returns exactly
\* one category, applying the rules in the order AUTH_ERROR (status 401, or a message
\* that mentions API key or unauthorized), RATE_LIMIT (status 429, or rate or quota),
\* SAFETY_BLOCK, CONTENT_BLOCKED, TIMEOUT, and API_ERROR when no rule matches; a
\* failure that matches several rules gets the category of the earliest.
C31_CategorizeFirstMatch ==
    (req.tool = "categorizeError" /\ pc = "done") =>
        /\ outcome.kind = "returned"
        /\ outcome.value.name = "MCPError"
        /\ outcome.value.category = RuleCategories[EarliestRule]
        /\ startsWith(outcome.value.message, RuleCategories[EarliestRule] \o S_colonSpace)

\* A failure with status 429 whose message mentions both a timeout and an API key is an
\* AUTH_ERROR
C31_Witness ==
    /\ req.tool = "categorizeError"
    /\ pc = "done"
    /\ req.phrases = {1, 9}
    /\ CarriedStatus = 429
    /\ outcome.value.category = S_AUTH_ERROR

\* A failure that matches no rule is an API_ERROR with its own message; undefined is one
C31_WitnessNoRule ==
    /\ req.tool = "categorizeError"
    /\ pc = "done"
    /\ req.error.kind = "undefined"
    /\ outcome.value.category = S_API_ERROR
    /\ outcome.value.message = S_API_ERROR \o S_colonSpace \o Undefined

\* A status code of 429 counts when the status is 0
C31_WitnessStatusCode ==
    /\ req.tool = "categorizeError"
    /\ pc = "done"
    /\ req.error.status = Num(0)
    /\ req.phrases = {11}
    /\ outcome.value.category = S_RATE_LIMIT

\* The text or image orchestrator has caught the failure of its vendor call and raised
\* its own
CaughtAtBoundary ==
    /\ req.tool \in {"generate_text", "generate_image"}
    /\ retryResult.kind = "thrown"
    /\ provResult.kind = "thrown"

\* The category categorizeError assigns to the failure that was caught
ClassifierCategory ==
    categorizeError(ThrownError(retryResult.error.message, NoNumber, NoNumber),
                    S_gemini).category

\* C32: for every failure caught at the outer boundary of the text or image
\* orchestrator, the category tag of the failure the orchestrator raises is the category
\* categorizeError assigns to the same failure, API_ERROR when no rule matches.
C32_TagIsClassifierCategory ==
    CaughtAtBoundary =>
        startsWith(provResult.error.message, ClassifierCategory \o S_colonSpace)

\* What the orchestrators do: their own rules agree with the classifier on the failures
\* the classifier has a rule for, and tag the others GENERATION_ERROR
C32_TagWhereClassifierHasRule ==
    CaughtAtBoundary =>
        IF ClassifierCategory # S_API_ERROR
        THEN startsWith(provResult.error.message, ClassifierCategory \o S_colonSpace)
        ELSE \/ startsWith(provResult.error.message, S_GENERATION_ERROR \o S_colonSpace)
             \/ /\ includes(retryResult.error.message, P_429)
                /\ startsWith(provResult.error.message, S_RATE_LIMIT \o S_colonSpace)

\* The invocations of the operation that succeeded
Succeeded == {k \in 1..Len(fnLog) : fnLog[k].kind = "resolved"}

\* C33: withRetry stops at the first success: when the operation first succeeds on its
\* k-th invocation, after k-1 retryable failures, it has been invoked exactly k times,
\* exactly k-1 sleeps were taken, none after the last attempt, and the value of that
\* success is returned.
C33_StopsAtFirstSuccess ==
    (req.tool = "withRetry") =>
        \A k \in Succeeded :
            /\ k <= opts.maxRetries + 1
            /\ \A i \in 1..(k - 1) :
                  /\ fnLog[i].kind = "rejected"
                  /\ fnLog[i].error.message \in RetryableMessages
            /\ calls = k
            /\ Len(fnLog) = k
            /\ Len(sleeps) = k - 1
            /\ pc \in {"retry_done", "done"}
            /\ retryResult = Returned(ValueOfCall(k))
            /\ pc = "done" => outcome = Returned(ValueOfCall(k))

\* Success at the third invocation, after two retryable failures and two sleeps
C33_Witness ==
    /\ req.tool = "withRetry"
    /\ pc = "done"
    /\ Succeeded = {3}
    /\ calls = 3
    /\ sleeps = <<1000, 2000>>
    /\ outcome = Returned(ValueOfCall(3))

\* Success at the first invocation, and at the last one allowed
C33_WitnessFirst ==
    /\ req.tool = "withRetry"
    /\ pc = "done"
    /\ Succeeded = {1}
    /\ sleeps = <<>>
    /\ opts.maxRetries = 3
C33_WitnessLast ==
    /\ req.tool = "withRetry"
    /\ pc = "done"
    /\ Succeeded = {4}
    /\ opts.maxRetries = 3
    /\ Len(sleeps) = 3

\* The attempts of a text or image invocation that the timer of withTimeout decided
TimedOutAttempts ==
    {i \in 1..Len(races) : races[i].result = "rejected" /\ races[i].error.origin = <<"timer", i>>}

\* C34: in text and image generation a timed-out attempt is never retried: the failure
\* withTimeout produces for 300000 ms and 180000 ms matches none of the provider's
\* retryable patterns, so after it no further vendor call is made and the invocation
\* fails with a message tagged TIMEOUT.
C34_TimeoutNeverRetried ==
    (req.tool \in {"generate_text", "generate_image"}) =>
        /\ ~isRetryableError(Failure(TimeoutMessage(ProviderTimeoutMs), <<"timer", 1>>),
                             PROVIDER_RETRY_OPTIONS.retryableErrors)
        /\ \A i \in TimedOutAttempts :
              /\ races[i].timeoutMs = ProviderTimeoutMs
              /\ races[i].error.message = TimeoutMessage(ProviderTimeoutMs)
              /\ i = Len(races)
              /\ Len(vendorCalls) = i
              /\ calls = i
              /\ Len(sleeps) = i - 1
              /\ pc \in {"retry_done", "provider_done", "done"}
              /\ retryResult = Thrown(races[i].error)
              /\ pc = "done" =>
                    /\ outcome.isError
                    /\ startsWith(ErrorText, S_TIMEOUT \o <<":">>)

\* A text invocation whose first attempt timed out after 300000 ms: one vendor call
C34_Witness ==
    /\ req.tool = "generate_text"
    /\ pc = "done"
    /\ TimedOutAttempts = {1}
    /\ races[1].deadline - races[1].start = 300000
    /\ Len(vendorCalls) = 1
    /\ startsWith(ErrorText, S_TIMEOUT \o <<":">>)

\* An image invocation whose second attempt timed out after 180000 ms: two vendor calls
C34_WitnessImage ==
    /\ req.tool = "generate_image"
    /\ pc = "done"
    /\ TimedOutAttempts = {2}
    /\ races[2].deadline - races[2].start = 180000
    /\ Len(vendorCalls) = 2
    /\ startsWith(ErrorText, S_TIMEOUT \o <<":">>)

\* Every attempt made so far was rejected by the vendor with a message containing 429
AllRateLimited ==
    /\ races # <<>>
    /\ \A i \in 1..Len(races) :
          /\ races[i].result = "rejected"
          /\ races[i].error.origin = <<"fn", i>>
          /\ includes(races[i].error.message, P_429)

\* C35: text and image generation make at most 3 vendor calls per invocation; when
\* every attempt fails with a rate-limit failure whose message contains 429, exactly 3
\* vendor calls are made, with sleeps of 1000 ms then 2000 ms between them, and the
\* invocation fails with a message tagged RATE_LIMIT.
C35_ThreeCallsOnRateLimit ==
    (req.tool \in {"generate_text", "generate_image"}) =>
        /\ Len(vendorCalls) <= 3
        /\ \A i \in 1..Len(vendorCalls) : vendorCalls[i].attempt = i
        /\ (AllRateLimited /\ pc \in {"retry_done", "provider_done", "done"}) =>
              /\ Len(vendorCalls) = 3
              /\ calls = 3
              /\ sleeps = <<1000, 2000>>
              /\ \A i \in 2..3 : races[i].start >= races[i - 1].start + sleeps[i - 1]
              /\ retryResult = Thrown(races[3].error)
              /\ pc = "done" =>
                    /\ outcome.isError
                    /\ startsWith(ErrorText, S_RATE_LIMIT \o <<":">>)

\* Three rate-limited attempts of a text invocation, and of an image invocation
C35_Witness ==
    /\ req.tool = "generate_text"
    /\ pc = "done"
    /\ AllRateLimited
    /\ Len(vendorCalls) = 3
    /\ sleeps = <<1000, 2000>>
    /\ startsWith(ErrorText, S_RATE_LIMIT \o <<":">>)
C35_WitnessImage ==
    /\ req.tool = "generate_image"
    /\ pc = "done"
    /\ AllRateLimited
    /\ Len(vendorCalls) = 3
    /\ sleeps = <<1000, 2000>>

\* The last status request was answered with a terminal status
TerminalStatusRead ==
    /\ req.tool = "deep_research"
    /\ research.last.status \in {S_completed, S_failed}

\* The budget had run out by the time the last response arrived
ArrivedPastBudget == now - research.startTime > research.timeoutMs

\* The status requests sent so far were sent within the budget
PollsSentWithinBudget ==
    research.polls > 0 => research.sentAt - research.startTime <= research.timeoutMs

\* C36 as stated: the budget is checked only at the head of the loop, so no status
\* request is sent past it, and a terminal status answered to a request sent within it
\* makes the call succeed or fail with RESEARCH_FAILED, however late the response.
C36_TerminalStatusDecides ==
    req.tool = "deep_research" =>
        /\ PollsSentWithinBudget
        /\ TerminalStatusRead =>
              \/ provResult.kind = "returned"
              \/ /\ provResult.kind = "thrown"
                 /\ startsWith(provResult.error.message, S_RESEARCH_FAILED)

\* C36: the budget is checked only at the head of the loop, before a status request is
\* sent: no request is sent once the elapsed time exceeds the budget, and a terminal
\* status answered to a request sent within the budget decides the outcome, however
\* late the response: completed with text is the success, completed without text the
\* API_ERROR failure, failed the RESEARCH_FAILED failure; never TIMEOUT.
C36_TerminalStatusDecidesByText ==
    req.tool = "deep_research" =>
        /\ PollsSentWithinBudget
        /\ TerminalStatusRead =>
              /\ pc \in {"provider_done", "done"}
              /\ research.observed = research.polls
              /\ provResult =
                    IF research.last.status = S_failed
                    THEN Thrown(ResearchFailed(research.last))
                    ELSE IF Truthy(OutputText(research.last))
                    THEN Returned(ResearchResult(OutputText(research.last)))
                    ELSE Thrown(Failure(S_CompletedNoOutput, <<"pollForCompletion", 2>>))
              /\ pc = "done" =>
                    /\ ~startsWith(ErrorText, S_TIMEOUT)
                    /\ outcome.isError <=> provResult.kind = "thrown"

\* Past the head of the loop the position changes without the budget being consulted:
\* from the await and the sleep the loop goes on whatever the time
C36_BudgetCheckedAtLoopHeadOnly ==
    [][(req.tool = "deep_research" /\ provResult'.kind = "thrown" /\ provResult.kind # "thrown"
            /\ startsWith(provResult'.error.message, S_ResearchTimedOut))
          => pc = "research_poll"]_vars

\* completed arrived after the budget of one minute had run out: the call succeeded
C36_Witness ==
    /\ pc = "done"
    /\ req.tool = "deep_research"
    /\ research.timeoutMs = 60000
    /\ research.last.status = S_completed
    /\ ArrivedPastBudget
    /\ ~outcome.isError

\* failed arrived after the budget had run out: RESEARCH_FAILED
C36_WitnessFailed ==
    /\ pc = "done"
    /\ req.tool = "deep_research"
    /\ research.last.status = S_failed
    /\ ArrivedPastBudget
    /\ research.observed > 1
    /\ startsWith(ErrorText, S_RESEARCH_FAILED)

\* completed without text arrived after the budget had run out: API_ERROR
C36_WitnessNoText ==
    /\ pc = "done"
    /\ req.tool = "deep_research"
    /\ research.last.status = S_completed
    /\ ArrivedPastBudget
    /\ startsWith(ErrorText, S_API_ERROR)

\* The statuses that end the loop, and a research whose every status request so far was
\* answered OK with another status
TerminalStatuses == {S_completed, S_failed}
StuckSoFar ==
    /\ req.tool = "deep_research"
    /\ research.polls > 0
    /\ research.observed = research.polls
    /\ research.last.status \notin TerminalStatuses

\* A stuck research that has ended has ended by TIMEOUT
StuckEndsByTimeout ==
    (StuckSoFar /\ pc \in {"provider_done", "done"}) =>
        /\ provResult.kind = "thrown"
        /\ startsWith(provResult.error.message, S_ResearchTimedOut)
        /\ now - research.startTime > research.timeoutMs
        /\ pc = "done" => outcome.isError /\ startsWith(ErrorText, S_TIMEOUT \o <<":">>)

\* A status that is not terminal is slept on for one poll interval, and the sleep leads
\* back to the head of the loop once the interval has passed
NonTerminalSleepsAndPolls ==
    /\ (pc = "research_poll_await" /\ research'.observed = research.observed + 1
            /\ research'.last.status \notin TerminalStatuses) =>
          /\ pc' = "research_sleep"
          /\ research'.wakeAt = now + research.pollIntervalMs
          /\ provResult' = provResult
          /\ vendorCalls' = vendorCalls
    /\ (pc = "research_sleep" /\ pc' # pc) =>
          /\ pc' = "research_poll"
          /\ now >= research.wakeAt
          /\ research' = research
          /\ vendorCalls' = vendorCalls
    /\ (pc = "research_poll" /\ pc' # pc /\ StuckSoFar) =>
          \/ /\ pc' = "research_poll_await"
             /\ research'.polls = research.polls + 1
             /\ Len(vendorCalls') = Len(vendorCalls) + 1
          \/ /\ pc' = "provider_done"
             /\ startsWith(provResult'.error.message, S_ResearchTimedOut)

\* C37: a status response whose status is neither completed nor failed (in_progress,
\* missing, or any other value) is treated as not finished: the loop sleeps one poll
\* interval and polls again, so a research stuck in such statuses ends only by TIMEOUT.
C37_NonTerminalStatusPollsAgain ==
    [](req.tool = "deep_research" => StuckEndsByTimeout)
        /\ [][req.tool = "deep_research" => NonTerminalSleepsAndPolls]_vars

\* One minute of statuses none of which is terminal, a missing one last: TIMEOUT
C37_Witness ==
    /\ pc = "done"
    /\ StuckSoFar
    /\ research.timeoutMs = 60000
    /\ research.observed = 7
    /\ ~research.inProgressOnly
    /\ research.last.status = Undefined
    /\ startsWith(ErrorText, S_TIMEOUT \o <<":">>)

\* An unrecognised status is slept on
C37_WitnessUnrecognized ==
    /\ pc = "research_sleep"
    /\ research.last.status = S_queued
    /\ research.wakeAt = now + research.pollIntervalMs
    /\ research.observed = 3

\* The status request under way was answered with a response that was not OK
PollNotOk ==
    /\ req.tool = "deep_research"
    /\ provResult.kind = "thrown"
    /\ provResult.error.origin = <<"pollForCompletion", 1>>

\* The status a failure to poll reports
PolledStatus(status) ==
    startsWith(provResult.error.message, S_FailedToPoll \o NumberToString(status) \o S_dash)

\* C38: a status request answered with a response that is not OK ends the research
\* call at once with a failure tagged API_ERROR whatever the status code (401, 429 and
\* 503 included); it is not retried, and no further status request or sleep follows.
C38_PollNotOkIsApiError ==
    [](PollNotOk =>
          /\ startsWith(provResult.error.message, S_API_ERROR \o <<":">>)
          /\ \E status \in {401, 429, 503} : PolledStatus(status)
          /\ pc \in {"provider_done", "done"}
          /\ research.observed = research.polls - 1
          /\ Len(vendorCalls) = 1 + research.polls
          /\ pc = "done" => outcome.isError /\ startsWith(ErrorText, S_API_ERROR \o <<":">>))
        /\ [][(req.tool = "deep_research" /\ pc = "research_poll_await"
                    /\ research' = research /\ pc' # pc) =>
                  /\ pc' = "provider_done"
                  /\ provResult'.kind = "thrown"
                  /\ vendorCalls' = vendorCalls
                  /\ now' = now]_vars
        /\ [][PollNotOk => (provResult' = provResult /\ vendorCalls' = vendorCalls
                                /\ research' = research
                                /\ pc' \in {pc, "done"})]_vars

\* The third status request was answered 429: API_ERROR, three status requests in all
C38_Witness ==
    /\ pc = "done"
    /\ PollNotOk
    /\ PolledStatus(429)
    /\ research.polls = 3
    /\ research.observed = 2
    /\ Len(vendorCalls) = 4
    /\ startsWith(ErrorText, S_API_ERROR \o <<":">>)

\* The first status request was answered 401, and 503
C38_WitnessUnauthorized ==
    /\ pc = "done"
    /\ PollNotOk
    /\ PolledStatus(401)
    /\ research.polls = 1
    /\ includes(ErrorText, S_API_KEY_INVALID)
    /\ startsWith(ErrorText, S_API_ERROR \o <<":">>)
C38_WitnessUnavailable ==
    /\ pc = "done"
    /\ PollNotOk
    /\ PolledStatus(503)
    /\ startsWith(ErrorText, S_API_ERROR \o <<":">>)

-----------------------------------------------------------------------------
(* The research call under fair scheduling: every request sent is answered, timers that *)
(* are due fire, and the handler's continuations run                                    *)

InitResearch ==
    /\ \E r \in ResearchRequests : req = r
    /\ pc = "dispatch"
    /\ InitCommon
    /\ parked = <<>>

NextResearch ==
    \/ CallTool
    \/ ResearchBegin
    \/ \E r \in StartResponses : StartResponds(r)
    \/ ResearchPoll
    \/ \E r \in PollResponses : PollResponds(r)
    \/ ResearchWake
    \/ FetchRejects(S_fetchFailed)
    \/ CallToolReturn
    \/ Tick

\* The event loop runs a continuation that is ready (the head of the loop, the code after
\* the sleep, the handler's return); every status request is answered; the clock reaches
\* the time a pending sleep is due. Each of these steps changes the position or the clock
FairResearch ==
    /\ WF_<<pc, now>>(ResearchPoll)
    /\ WF_<<pc, now>>(\E r \in PollResponses : PollResponds(r))
    /\ WF_<<pc, now>>(ResearchWake)
    /\ WF_<<pc, now>>(CallToolReturn)
    /\ WF_<<pc, now>>(Tick)

SpecResearch == InitResearch /\ [][NextResearch]_vars /\ FairResearch

\* Math.ceil(a / b) for positive integers
Ceil(a, b) == (a + b - 1) \div b

\* The poll loop has been entered: the start request returned an interaction id
PollLoopEntered == req.tool = "deep_research" /\ research.interactionId # <<>>

\* The invocation has ended with a result that is a success or is tagged with one of
\* RESEARCH_FAILED, API_ERROR and TIMEOUT, and with only one of them
EndingsOf ==
    {e \in {"success", "RESEARCH_FAILED", "API_ERROR", "TIMEOUT"} :
        CASE e = "success" -> ~outcome.isError /\ provResult.kind = "returned"
          [] e = "RESEARCH_FAILED" ->
                outcome.isError /\ startsWith(ErrorText, S_RESEARCH_FAILED)
          [] e = "API_ERROR" ->
                outcome.isError /\ startsWith(ErrorText, S_API_ERROR \o <<":">>)
          [] e = "TIMEOUT" ->
                outcome.isError /\ startsWith(ErrorText, S_TIMEOUT \o <<":">>)}
EndedInOneOfFour == pc = "done" /\ Cardinality(EndingsOf) = 1

\* Every status request sent so far has returned a response, or is still under way
PollsReturned == ~(provResult.kind = "thrown" /\ provResult.error.origin[1] = "fetch")

\* C39: the poll loop of research terminates: provided every status request eventually
\* returns and the clock advances by at least the poll interval (> 0) across each sleep,
\* every research invocation that enters the loop eventually ends, in exactly one of
\* success, RESEARCH_FAILED, API_ERROR and TIMEOUT, after at most
\* ceil(timeoutMs / pollIntervalMs) + 1 status requests.
C39_PollLoopTerminates ==
    /\ [](PollLoopEntered =>
            /\ research.pollIntervalMs > 0
            /\ research.polls <= Ceil(research.timeoutMs, research.pollIntervalMs) + 1
            /\ (pc = "done" /\ PollsReturned) => EndedInOneOfFour)
    /\ [][(PollLoopEntered /\ pc = "research_sleep" /\ pc' # pc) =>
              now >= research.sentAt + research.pollIntervalMs]_vars
    /\ (PollLoopEntered /\ pc # "done") ~> (pc = "done")

\* The four endings of a research that entered the loop; the one by TIMEOUT after the
\* most status requests a budget of one minute allows
C39_Witness ==
    /\ PollLoopEntered
    /\ pc = "done"
    /\ PollsReturned
    /\ EndingsOf = {"TIMEOUT"}
    /\ research.timeoutMs = 60000
    /\ research.polls = Ceil(research.timeoutMs, research.pollIntervalMs) + 1
C39_WitnessSuccess ==
    PollLoopEntered /\ pc = "done" /\ EndingsOf = {"success"} /\ research.polls = 2
C39_WitnessFailed ==
    PollLoopEntered /\ pc = "done" /\ EndingsOf = {"RESEARCH_FAILED"} /\ research.polls = 2
C39_WitnessApiError ==
    PollLoopEntered /\ pc = "done" /\ EndingsOf = {"API_ERROR"} /\ research.polls = 2
C39_WitnessLongBudget ==
    /\ PollLoopEntered
    /\ pc = "done"
    /\ EndingsOf = {"TIMEOUT"}
    /\ research.timeoutMs = 1800000
    /\ research.polls = 181

=============================================================================
